---- MODULE Spec2Model ----
(***************************************************************************)
(* Model of the compliance_rag text normaliser (scripts/preprocess_text.py) *)
(* and of the trace-capturing drivers (scripts/06_capture_traces.py,        *)
(* scripts/07_generate_example_traces.py).                                  *)
(*                                                                          *)
(* A text is a sequence of characters; a character is a one-symbol string   *)
(* (invisible code points carry a mnemonic name such as "NBSP").            *)
(***************************************************************************)
EXTENDS Integers, Sequences, FiniteSets, TLC

\* ------------------------------------------------------------------------
\* Characters
\* ------------------------------------------------------------------------
NL == "\n"
SP == " "
TAB == "\t"
NUL == "NUL"
BOM == "BOM"
ZWSP == "ZWSP"
NBSP == "NBSP"
ENDASH == "ENDASH"
EMDASH == "EMDASH"
DQUOTE == "\""
SQUOTE == "'"
LDQUO == "LDQUO"
RDQUO == "RDQUO"
LSQUO == "LSQUO"
RSQUO == "RSQUO"

\* \s of the re module and the characters str.strip()/rstrip() remove
Whitespace == {SP, TAB, NL, "\r", NBSP}
\* \d
Digits == {"0", "1", "2", "3", "4", "5", "6", "7", "8", "9"}
\* [A-Z]
UpperLetters == {"A", "B", "C", "E", "F", "G", "O", "P"}
LowerLetters == {"a", "b", "c", "e", "f", "g", "o", "p"}
\* [-–—]
DashLike == {"-", ENDASH, EMDASH}
Alnum == Digits \cup UpperLetters \cup LowerLetters

\* lower-casing as re.IGNORECASE compares the letters of "Page" and "of"
ToLower(c) ==
  CASE c = "P" -> "p" [] c = "A" -> "a" [] c = "G" -> "g" [] c = "E" -> "e"
    [] c = "O" -> "o" [] c = "F" -> "f" [] c = "B" -> "b" [] c = "C" -> "c"
    [] OTHER -> c

\* ------------------------------------------------------------------------
\* String helpers
\* ------------------------------------------------------------------------
Drop(s, n) == SubSeq(s, n + 1, Len(s))
Take(s, n) == SubSeq(s, 1, n)

\* first index >= i whose character is outside class (Len(s)+1 if none):
\* where a greedy  class*  started at i stops
RECURSIVE SkipWhile(_, _, _)
SkipWhile(s, i, class) ==
  IF i <= Len(s) /\ s[i] \in class THEN SkipWhile(s, i + 1, class) ELSE i

\* does s continue with the characters of word at index i, ignoring case
StartsWithIgnoreCase(s, i, word) ==
  /\ i + Len(word) - 1 <= Len(s)
  /\ \A k \in 1..Len(word) : ToLower(s[i + k - 1]) = word[k]

StartsWith(s, word) ==
  /\ Len(word) <= Len(s)
  /\ \A k \in 1..Len(word) : s[k] = word[k]

\* index of the first occurrence of c in s at or after i (Len(s)+1 if none)
RECURSIVE IndexOf(_, _, _)
IndexOf(s, i, c) ==
  IF i <= Len(s) /\ s[i] # c THEN IndexOf(s, i + 1, c) ELSE i

\* text.split('\n')
RECURSIVE SplitLines(_)
SplitLines(t) ==
  LET k == IndexOf(t, 1, NL)
  IN IF k > Len(t) THEN <<t>>
     ELSE <<Take(t, k - 1)>> \o SplitLines(Drop(t, k))

\* '\n'.join(lines)
RECURSIVE JoinLines(_)
JoinLines(ls) ==
  IF Len(ls) = 0 THEN <<>>
  ELSE IF Len(ls) = 1 THEN ls[1]
  ELSE ls[1] \o <<NL>> \o JoinLines(Tail(ls))

\* str.rstrip(), str.lstrip(), str.strip()
RECURSIVE rstrip(_)
rstrip(s) ==
  IF Len(s) > 0 /\ s[Len(s)] \in Whitespace THEN rstrip(Take(s, Len(s) - 1)) ELSE s

lstrip(s) == Drop(s, SkipWhile(s, 1, Whitespace) - 1)

strip(s) == lstrip(rstrip(s))

Min(S) == CHOOSE x \in S : \A y \in S : x <= y

\* where a scan from the left finds its first match: the least i such that
\* a match starts at t[i], 0 if there is none; MatchEnd(u) is the end
\* (exclusive) of a match starting at u[1], 0 if none starts there
FirstMatch(MatchEnd(_), t) ==
  LET starts == {i \in 1..Len(t) : MatchEnd(Drop(t, i - 1)) > 0}
  IN IF starts = {} THEN 0 ELSE Min(starts)

\* str.replace(old, new) for a non-empty old: occurrences are replaced from
\* the left, the search going on after each one
RECURSIVE Replace(_, _, _)
Replace(t, old, new) ==
  LET OldEnd(u) == IF StartsWith(u, old) THEN Len(old) + 1 ELSE 0
      i == FirstMatch(OldEnd, t)
  IN IF i = 0 THEN t
     ELSE Take(t, i - 1) \o new \o Replace(Drop(t, i - 1 + Len(old)), old, new)

\* ------------------------------------------------------------------------
\* preprocess_text.py: the cleaning steps
\* ------------------------------------------------------------------------

\* re.sub(pattern, repl, text) for a pattern that looks at nothing before
\* its match: the leftmost match is replaced, the search goes on behind it.
\* end (exclusive) of a match of  ' {2,}'  starting at t[1], 0 if none
SpaceRunEnd(t) ==
  LET e == SkipWhile(t, 1, {SP}) IN IF e > 2 THEN e ELSE 0

\* re.sub(r' {2,}', ' ', text)
RECURSIVE CollapseSpaces(_)
CollapseSpaces(t) ==
  LET i == FirstMatch(SpaceRunEnd, t)
  IN IF i = 0 THEN t
     ELSE Take(t, i - 1) \o <<SP>>
            \o CollapseSpaces(Drop(t, i - 1 + SpaceRunEnd(Drop(t, i - 1)) - 1))

\* end (exclusive) of a match of  \n{3,}  starting at t[1], 0 if none
NewlineRunEnd(t) ==
  LET e == SkipWhile(t, 1, {NL}) IN IF e > 3 THEN e ELSE 0

\* re.sub(r'\n{3,}', '\n\n', text)
RECURSIVE CollapseNewlines(_)
CollapseNewlines(t) ==
  LET i == FirstMatch(NewlineRunEnd, t)
  IN IF i = 0 THEN t
     ELSE Take(t, i - 1) \o <<NL, NL>>
            \o CollapseNewlines(Drop(t, i - 1 + NewlineRunEnd(Drop(t, i - 1)) - 1))

\* [line.rstrip() for line in lines]
RstripEach(ls) == [k \in 1..Len(ls) |-> rstrip(ls[k])]

\* the whitespace step without the per-line rstrip
remove_excessive_whitespace_NoRstrip(text) ==
  JoinLines(SplitLines(CollapseNewlines(CollapseSpaces(text))))

remove_excessive_whitespace(text) ==
  JoinLines(RstripEach(SplitLines(CollapseNewlines(CollapseSpaces(text)))))

\* re.match(r'^\s*[-–—]?\s*\d+\s*[-–—]?\s*$', line)
IsPageNumberLine(line) ==
  LET i1 == SkipWhile(line, 1, Whitespace)
      i2 == IF i1 <= Len(line) /\ line[i1] \in DashLike THEN i1 + 1 ELSE i1
      i3 == SkipWhile(line, i2, Whitespace)
      i4 == SkipWhile(line, i3, Digits)
      i5 == SkipWhile(line, i4, Whitespace)
      i6 == IF i5 <= Len(line) /\ line[i5] \in DashLike THEN i5 + 1 ELSE i5
      i7 == SkipWhile(line, i6, Whitespace)
  IN i4 > i3 /\ i7 = Len(line) + 1

\* re.match(r'^\s*Page\s+\d+\s*(of\s+\d+)?\s*$', line, re.IGNORECASE)
IsPageOfLine(line) ==
  LET i1 == SkipWhile(line, 1, Whitespace)
      i2 == i1 + 4
      i3 == SkipWhile(line, i2, Whitespace)
      i4 == SkipWhile(line, i3, Digits)
      i5 == SkipWhile(line, i4, Whitespace)
      j1 == i5 + 2
      j2 == SkipWhile(line, j1, Whitespace)
      j3 == SkipWhile(line, j2, Digits)
      hasOf == /\ StartsWithIgnoreCase(line, i5, <<"o", "f">>)
               /\ j2 > j1
               /\ j3 > j2
      i6 == IF hasOf THEN j3 ELSE i5
      i7 == SkipWhile(line, i6, Whitespace)
  IN /\ StartsWithIgnoreCase(line, i1, <<"p", "a", "g", "e">>)
     /\ i3 > i2
     /\ i4 > i3
     /\ i7 = Len(line) + 1

\* len(line.strip()) < 3 and (i < 5 or i > len(lines) - 5), i counted from 0
IsShortEdgeLine(line, i, n) ==
  Len(strip(line)) < 3 /\ (i < 5 \/ i > n - 5)

\* the line with 0-based index i of n lines is skipped by remove_page_artifacts
IsDroppedLine(line, i, n) ==
  \/ IsPageNumberLine(line)
  \/ IsPageOfLine(line)
  \/ IsShortEdgeLine(line, i, n)

RECURSIVE KeepLines(_, _)
KeepLines(ls, k) ==
  IF k > Len(ls) THEN <<>>
  ELSE IF IsDroppedLine(ls[k], k - 1, Len(ls)) THEN KeepLines(ls, k + 1)
  ELSE <<ls[k]>> \o KeepLines(ls, k + 1)

\* the page step with the short-line rule applied to every line of the text
remove_page_artifacts_AnyShortLine(text) ==
  LET ls == SplitLines(text)
      long == SelectSeq(ls, LAMBDA l : Len(strip(l)) >= 3)
  IN JoinLines(KeepLines(long, 1))

remove_page_artifacts(text) == JoinLines(KeepLines(SplitLines(text), 1))

\* one line of normalize_section_headers:
\* re.sub(r'^(\d+(?:\.\d+)*)\s*([A-Z])', r'\1 \2', line)
RECURSIVE SkipDottedNumbers(_, _)
SkipDottedNumbers(line, i) ==
  IF /\ i + 1 <= Len(line)
     /\ line[i] = "."
     /\ line[i + 1] \in Digits
  THEN SkipDottedNumbers(line, SkipWhile(line, i + 1, Digits))
  ELSE i

\* the line is handed back as it came
NormalizeHeaderLine_Untouched(line) == line

NormalizeHeaderLine(line) ==
  LET i1 == SkipWhile(line, 1, Digits)
      i2 == SkipDottedNumbers(line, i1)
      i3 == SkipWhile(line, i2, Whitespace)
  IN IF i1 > 1 /\ i3 <= Len(line) /\ line[i3] \in UpperLetters
     THEN Take(line, i2 - 1) \o <<SP>> \o Drop(line, i3 - 1)
     ELSE line

normalize_section_headers(text) ==
  LET ls == SplitLines(text)
  IN JoinLines([k \in 1..Len(ls) |-> NormalizeHeaderLine(ls[k])])

\* end (exclusive) of a match of  \.{3,}\s*\d+  starting at t[1], 0 if none
DotLeaderEnd(t) ==
  LET i1 == SkipWhile(t, 1, {"."})
      i2 == SkipWhile(t, i1, Whitespace)
      i3 == SkipWhile(t, i2, Digits)
  IN IF i1 > 3 /\ i3 > i2 THEN i3 ELSE 0

\* re.sub(r'\.{3,}\s*\d+', '', text)
RECURSIVE RemoveDotLeaders(_)
RemoveDotLeaders(t) ==
  LET i == FirstMatch(DotLeaderEnd, t)
  IN IF i = 0 THEN t
     ELSE Take(t, i - 1)
            \o RemoveDotLeaders(Drop(t, i - 1 + DotLeaderEnd(Drop(t, i - 1)) - 1))

\* index of the last newline of t in from..to-1, 0 if none
RECURSIVE LastNewline(_, _, _)
LastNewline(t, from, to) ==
  IF to <= from THEN 0
  ELSE IF t[to - 1] = NL THEN to - 1
  ELSE LastNewline(t, from, to - 1)

\* end (exclusive) of a match of  \s+\d+\s*$  (re.MULTILINE) starting at
\* t[1], 0 if none: the greedy \s* gives characters back until it stands
\* at the end of the text or just before a newline
TrailingNumberEnd(t) ==
  LET i1 == SkipWhile(t, 1, Whitespace)
      i2 == SkipWhile(t, i1, Digits)
      i3 == SkipWhile(t, i2, Whitespace)
  IN IF i1 > 1 /\ i2 > i1
     THEN IF i3 = Len(t) + 1 THEN i3 ELSE LastNewline(t, i2, i3)
     ELSE 0

\* re.sub(r'\s+\d+\s*$', '', text, flags=re.MULTILINE)
RECURSIVE RemoveTrailingNumbers(_)
RemoveTrailingNumbers(t) ==
  LET i == FirstMatch(TrailingNumberEnd, t)
  IN IF i = 0 THEN t
     ELSE Take(t, i - 1)
            \o RemoveTrailingNumbers(
                 Drop(t, i - 1 + TrailingNumberEnd(Drop(t, i - 1)) - 1))

remove_table_of_contents_artifacts(text) ==
  RemoveTrailingNumbers(RemoveDotLeaders(text))

\* the replacements dictionary as the interpreter reads it: the two quote
\* entries map the straight double quote to itself, and the two lines after
\* them form one triple-quoted key
WeirdKey ==
  <<":", SP, DQUOTE, SQUOTE, DQUOTE, ",", NL,
    SP, SP, SP, SP, SP, SP, SP, SP>>

replacements ==
  << <<(<<NUL>>), <<>>>>,
     <<(<<BOM>>), <<>>>>,
     <<(<<ZWSP>>), <<>>>>,
     <<(<<NBSP>>), <<SP>>>>,
     <<(<<ENDASH>>), <<"-">>>>,
     <<(<<EMDASH>>), <<"-">>>>,
     <<(<<DQUOTE>>), <<DQUOTE>>>>,
     <<WeirdKey, <<SQUOTE>>>> >>

\* for old, new in replacements.items(): text = text.replace(old, new)
RECURSIVE ReplaceFrom(_, _)
ReplaceFrom(t, k) ==
  IF k > Len(replacements) THEN t
  ELSE ReplaceFrom(Replace(t, replacements[k][1], replacements[k][2]), k + 1)

clean_special_characters(text) == ReplaceFrom(text, 1)

preprocess_text(text) ==
  strip(remove_excessive_whitespace(
          normalize_section_headers(
            remove_table_of_contents_artifacts(
              remove_page_artifacts(
                clean_special_characters(text))))))

\* ------------------------------------------------------------------------
\* What the cleaning steps delete, as positions of the text a step is given
\* (counted from 1), and what becomes of each alphanumeric token
\* ------------------------------------------------------------------------

\* index of the first character of the line position p lies on
LineStart(t, p) == LastNewline(t, 1, p) + 1

\* the line position p lies on; a newline counts to the line it ends
LineAt(t, p) == SubSeq(t, LineStart(t, p), IndexOf(t, p, NL) - 1)

\* the index enumerate(lines) gives that line, and len(lines)
LineIndex(t, p) == Cardinality({k \in 1..(p - 1) : t[k] = NL})

\* the positions of the lines remove_page_artifacts skips
PageArtifactPositions(t) ==
  LET ls == SplitLines(t)
      skipped == {i \in 0..(Len(ls) - 1) : IsDroppedLine(ls[i + 1], i, Len(ls))}
  IN {p \in 1..Len(t) : LineIndex(t, p) \in skipped}

\* the positions of the matches re.sub(r'\.{3,}\s*\d+', ...) finds in the
\* text of which u is what is left after the first off characters
RECURSIVE DotLeaderPositions(_, _)
DotLeaderPositions(u, off) ==
  LET i == FirstMatch(DotLeaderEnd, u)
      e == DotLeaderEnd(Drop(u, i - 1))
  IN IF i = 0 THEN {}
     ELSE ((off + i)..(off + i + e - 2))
            \cup DotLeaderPositions(Drop(u, i + e - 2), off + i + e - 2)

\* the same for the matches of re.sub(r'\s+\d+\s*$', ..., re.MULTILINE)
RECURSIVE TrailingNumberPositions(_, _)
TrailingNumberPositions(u, off) ==
  LET i == FirstMatch(TrailingNumberEnd, u)
      e == TrailingNumberEnd(Drop(u, i - 1))
  IN IF i = 0 THEN {}
     ELSE ((off + i)..(off + i + e - 2))
            \cup TrailingNumberPositions(Drop(u, i + e - 2), off + i + e - 2)

\* position p holds the upper-case letter that the substitution of
\* normalize_section_headers parts from the section number right before it
IsHeaderGlue(t, p) ==
  /\ p \in 1..Len(t)
  /\ t[p] \in UpperLetters
  /\ LET line == LineAt(t, p)
         i1 == SkipWhile(line, 1, Digits)
         i2 == SkipDottedNumbers(line, i1)
     IN i1 > 1 /\ i2 = p - LineStart(t, p) + 1

\* where the character at position p stands once the deleted positions,
\* p not among them, are gone
NewPos(p, deleted) == p - Cardinality({d \in deleted : d < p})

\* alphanumeric tokens: the maximal runs of letters and digits
TokenStarts(t) ==
  {s \in 1..Len(t) : t[s] \in Alnum /\ (s = 1 \/ t[s - 1] \notin Alnum)}
TokenEnd(t, s) == SkipWhile(t, s, Alnum) - 1
TokenAt(t, s) == SubSeq(t, s, TokenEnd(t, s))

\* w is a contiguous part of t
Occurs(w, t) ==
  \E i \in 1..(Len(t) - Len(w) + 1) : SubSeq(t, i, i + Len(w) - 1) = w

\* what preprocess_text does to each token of text, read after the
\* character step: the step that removes or parts it, "content" if none does
TokenFates(text) ==
  LET t0 == clean_special_characters(text)
      d0 == PageArtifactPositions(t0)
      t1 == remove_page_artifacts(t0)
      d1 == DotLeaderPositions(t1, 0)
      t2 == RemoveDotLeaders(t1)
      d2 == TrailingNumberPositions(t2, 0)
      t3 == RemoveTrailingNumbers(t2)
      Fate(s) ==
        LET last == TokenEnd(t0, s) - s
            line == LineAt(t0, s)
            s1 == NewPos(s, d0)
            s2 == NewPos(s1, d1)
            s3 == NewPos(s2, d2)
        IN IF s \in d0
           THEN IF IsPageNumberLine(line) \/ IsPageOfLine(line)
                THEN "page_number_line"
                ELSE "short_edge_line"
           ELSE IF (s1..(s1 + last)) \cap d1 # {} THEN "dot_leader"
           ELSE IF (s2..(s2 + last)) \cap d2 # {} THEN "trailing_number"
           ELSE IF \E p \in (s3 + 1)..(s3 + last) : IsHeaderGlue(t3, p)
                THEN "header_split"
           ELSE "content"
  IN [s \in TokenStarts(t0) |-> Fate(s)]

\* ------------------------------------------------------------------------
\* Python floats (IEEE-754 binary64) as calculate_stats uses them.
\* A magnitude is a binary fixed-point number: FixedBits bits, most
\* significant first, FracBits of them after the point; a float is a sign
\* and a magnitude that has at most MantissaBits significant bits.  The
\* layout is exact for the quotients of text lengths below 2^15.
\* ------------------------------------------------------------------------
IntBits == 16
FracBits == 80
FixedBits == IntBits + FracBits
MantissaBits == 53

RECURSIVE IntToBits(_, _)
\* the n low bits of a natural number
IntToBits(v, n) ==
  IF n = 0 THEN <<>> ELSE Append(IntToBits(v \div 2, n - 1), v % 2)

RECURSIVE BitsToInt(_)
BitsToInt(bits) ==
  IF bits = <<>> THEN 0
  ELSE 2 * BitsToInt(SubSeq(bits, 1, Len(bits) - 1)) + bits[Len(bits)]

\* a function on 1..FixedBits written out as a sequence of bits
AsBits(f) == SubSeq(f, 1, FixedBits)

UnitAt(k) == AsBits([i \in 1..FixedBits |-> IF i = k THEN 1 ELSE 0])
FixedZero == AsBits([i \in 1..FixedBits |-> 0])
FixedOne == UnitAt(IntBits)

\* a < b
FixedLess(a, b) ==
  \E i \in 1..FixedBits : a[i] < b[i] /\ \A j \in 1..(i - 1) : a[j] = b[j]

\* the carry that enters position i of a + b: the nearest lower position
\* that does not pass a carry on (both bits equal) makes one iff it holds 1s
CarryInto(a, b, i) ==
  LET stops == {j \in (i + 1)..FixedBits : a[j] = b[j]}
  IN IF stops = {} THEN 0 ELSE a[Min(stops)]

FixedAdd(a, b) ==
  AsBits([i \in 1..FixedBits |-> (a[i] + b[i] + CarryInto(a, b, i)) % 2])

\* the borrow that position i of a - b lends: the nearest lower position
\* where the bits differ takes one iff a has the 0 there
BorrowFrom(a, b, i) ==
  LET stops == {j \in (i + 1)..FixedBits : a[j] # b[j]}
  IN IF stops = {} THEN 0 ELSE b[Min(stops)]

\* a - b for a >= b
FixedSub(a, b) ==
  AsBits([i \in 1..FixedBits |-> (2 + a[i] - b[i] - BorrowFrom(a, b, i)) % 2])

\* a * 2^k
ShiftLeft(a, k) ==
  AsBits([i \in 1..FixedBits |-> IF i + k <= FixedBits THEN a[i + k] ELSE 0])

\* a * 10, exactly
TimesTen(a) == FixedAdd(ShiftLeft(a, 3), ShiftLeft(a, 1))

RECURSIVE Pow2Mod(_, _)
\* 2^n mod b, by repeated squaring (b < 2^15 keeps the products in range)
Pow2Mod(n, b) ==
  IF n = 0 THEN 1 % b
  ELSE LET h == Pow2Mod(n \div 2, b)
       IN (h * h * (IF n % 2 = 1 THEN 2 ELSE 1)) % b

\* long division: the first n binary digits of r / b after the point
\* (0 <= r < b), followed by 1 if digits other than 0 come after them; the
\* remainder left after k digits is r * 2^k mod b
FracDigits(r, b, n) ==
  SubSeq([k \in 1..(n + 1) |->
            IF k <= n THEN (2 * ((r * Pow2Mod(k - 1, b)) % b)) \div b
            ELSE IF (r * Pow2Mod(n, b)) % b = 0 THEN 0 ELSE 1], 1, n + 1)

\* round to nearest, ties to even, at MantissaBits significant bits; sticky
\* is 1 when the exact value has digits below the last bit of the layout
RoundToDouble(bits, sticky) ==
  LET ones == {i \in 1..FixedBits : bits[i] = 1}
  IN IF ones = {} THEN bits
     ELSE LET last == Min(ones) + MantissaBits - 1
          IN IF last >= FixedBits THEN bits
             ELSE LET guard == bits[last + 1]
                      rest == \/ sticky = 1
                              \/ \E i \in (last + 2)..FixedBits : bits[i] = 1
                      kept == AsBits([i \in 1..FixedBits |->
                                        IF i <= last THEN bits[i] ELSE 0])
                  IN IF guard = 1 /\ (rest \/ bits[last] = 1)
                     THEN FixedAdd(kept, UnitAt(last))
                     ELSE kept

ZeroDivisionError == [exception |-> "ZeroDivisionError"]
IsException(v) == "exception" \in DOMAIN v

\* a / b of two ints (b >= 0): the correctly rounded quotient, or the
\* exception of a division by zero
TrueDivide(a, b) ==
  IF b = 0 THEN ZeroDivisionError
  ELSE LET m == IF a < 0 THEN 0 - a ELSE a
           f == FracDigits(m % b, b, FracBits)
       IN [neg |-> a < 0,
           bits |-> RoundToDouble(IntToBits(m \div b, IntBits) \o SubSeq(f, 1, FracBits),
                                  f[FracBits + 1])]

\* 1 - x for a float x >= 0
OneMinus(x) ==
  IF FixedLess(FixedOne, x.bits)
  THEN [neg |-> TRUE, bits |-> RoundToDouble(FixedSub(x.bits, FixedOne), 0)]
  ELSE [neg |-> FALSE, bits |-> RoundToDouble(FixedSub(FixedOne, x.bits), 0)]

\* x * 100
Times100(x) == [neg |-> x.neg, bits |-> RoundToDouble(TimesTen(TimesTen(x.bits)), 0)]

RECURSIVE TimesTenPow(_, _)
TimesTenPow(a, n) == IF n = 0 THEN a ELSE TimesTenPow(TimesTen(a), n - 1)

\* round(x, ndigits): the exact value of x rounded half-even to ndigits
\* decimals, given as the integer number of units of 10^-ndigits
round(x, ndigits) ==
  LET e == TimesTenPow(x.bits, ndigits)
      int == BitsToInt(SubSeq(e, 1, IntBits))
      guard == e[IntBits + 1]
      rest == \E i \in (IntBits + 2)..FixedBits : e[i] = 1
      h == IF guard = 1 /\ (rest \/ int % 2 = 1) THEN int + 1 ELSE int
  IN IF x.neg THEN 0 - h ELSE h

\* str.count(c)
count(s, c) == Cardinality({i \in 1..Len(s) : s[i] = c})

\* calculate_stats divides without asking whether the original is empty
calculate_stats_Unguarded(original_text, processed_text) ==
  LET q == TrueDivide(Len(processed_text), Len(original_text))
  IN IF IsException(q) THEN q
     ELSE [original_length |-> Len(original_text),
           processed_length |-> Len(processed_text),
           reduction_chars |-> Len(original_text) - Len(processed_text),
           reduction_percent |-> round(Times100(OneMinus(q)), 2),
           original_lines |-> count(original_text, NL) + 1,
           processed_lines |-> count(processed_text, NL) + 1]

\* calculate_stats; reduction_percent is in hundredths of a percent
calculate_stats(original_text, processed_text) ==
  LET q == IF Len(original_text) > 0
           THEN TrueDivide(Len(processed_text), Len(original_text))
           ELSE [neg |-> FALSE, bits |-> FixedZero]
  IN IF IsException(q) THEN q
     ELSE [original_length |-> Len(original_text),
           processed_length |-> Len(processed_text),
           reduction_chars |-> Len(original_text) - Len(processed_text),
           reduction_percent |->
             IF Len(original_text) > 0 THEN round(Times100(OneMinus(q)), 2) ELSE 0,
           original_lines |-> count(original_text, NL) + 1,
           processed_lines |-> count(processed_text, NL) + 1]

\* the value the specification gives for reduction_percent:
\* round((original_length - processed_length) / original_length * 100, 2)
StatedReductionPercent(original_length, processed_length) ==
  IF original_length > 0
  THEN round(Times100(TrueDivide(original_length - processed_length, original_length)), 2)
  ELSE 0

\* ------------------------------------------------------------------------
\* Bounds
\* ------------------------------------------------------------------------
\* lines of a raw text
MaxLines == 3
\* content lines put around a document body
EdgeLines == 5
\* runs of the cleaner over one text
MaxRuns == 2
\* queries one session asks (recorded or failed)
MaxQueries == 2
\* queries one of two concurrent sessions asks
MaxSharedQueries == 1
\* last clock reading, in ticks
MaxTime == 3
\* clock ticks per second of wall-clock time
TicksPerSecond == 2
\* clock ticks per hundredth of a second, the unit round(x, 2) keeps
RoundTicks == 4
\* characters of a text made of whitespace only
MaxBlank == 3
\* lines of a text with blanks at its end, and characters of each line:
\* StatLines * StatLineWidth + StatLines - 1 = 160 characters in all
StatLines == 7
StatLineWidth == 22
\* text files the extracted directory can hold
MaxDocs == 2
\* characters of a text made of special characters
MaxChars == 3
\* lines of a text made of header and table-of-contents lines
MaxStepLines == 3

\* ------------------------------------------------------------------------
\* State
\* ------------------------------------------------------------------------
VARIABLES
  original,       \* normaliser: the raw text
  processed,      \* normaliser: processed[k] is the text after k runs
  stats,          \* normaliser: what calculate_stats returned, if called
  raised,         \* normaliser: the exception that left process_document
  extracted,      \* preprocessing batch: data/extracted, stem -> [text, metadata]
  text_files,     \* preprocessing batch: the files the loop has yet to take
  processed_dir,  \* preprocessing batch: data/processed, stem -> [text, metadata]
  results,        \* preprocessing batch: the results list
  total_original, \* preprocessing batch: characters read, successes only
  total_processed,\* preprocessing batch: characters written, successes only
  ask,            \* interactive chat: the run of ask_question in progress
  now,            \* wall clock, in ticks
  files,          \* output directory: file name -> serialized trace
  event,          \* what the last step did: [proc, kind, question, documents]
  driver,         \* per session: "interactive" | "batch" | "none"
  pc,             \* per session: "idle" | "loop" | "done" | "raised"
  retrieve_only,  \* per session: the retrieve_only argument
  session_start,  \* per session: datetime.now() at start
  session_id,     \* per session: session_start formatted to the second
  traces,         \* per session: [session_metadata, queries]
  query_count,    \* per session: interactive query counter
  questions,      \* per session: the batch driver's question list
  next_q,         \* per session: index of the batch driver's next question
  printed         \* per session: the notices printed at session end

normVars == <<original, processed, stats, raised, extracted, text_files,
              processed_dir, results, total_original, total_processed, ask>>
sessionVars == <<now, files, event, driver, pc, retrieve_only, session_start,
                 session_id, traces, query_count, questions, next_q, printed>>
vars == <<original, processed, stats, raised, extracted, text_files,
          processed_dir, results, total_original, total_processed, ask, now, files, event, driver, pc, retrieve_only,
          session_start, session_id, traces, query_count, questions, next_q,
          printed>>

None == "None"

\* no ask_question call is in progress
NoAsk ==
  [stage |-> "idle", question |-> None, active_model |-> None,
   switched_model |-> None, attempts |-> 0, failed |-> FALSE,
   error_msg |-> <<>>, choice |-> <<>>, returned |-> <<>>]
Procs == {1, 2}

\* ------------------------------------------------------------------------
\* Normaliser as a state machine: a raw text is drawn, the cleaner is run
\* on it, then run again on its own output
\* ------------------------------------------------------------------------
LineSet ==
  { <<>>,
    <<SP>>,
    <<"a", NUL, "b">>,
    <<".", ".", ".">>,
    <<SP, ".", ".", ".", "1">>,
    <<"a", "b", "c", SP, "1", SP, "2">>,
    <<"1", ".", "2", "A", "b", SP, SP, SP, "c", SP, TAB>>,
    <<"P", "a", "g", "e", SP, "1">> }

\* a document body of up to MaxLines lines, bare or wrapped in EdgeLines
\* content lines on either side, which puts the body outside the first and
\* last lines of the document
Padding(n) == [k \in 1..n |-> <<"e", "f", "g">>]

RawTexts ==
  UNION { { JoinLines(Padding(pad) \o ls \o Padding(pad)) :
              ls \in [1..n -> LineSet], pad \in {0, EdgeLines} } :
          n \in 0..MaxLines }

\* no document handled and no batch under way
NoDocuments ==
  /\ stats = <<>>
  /\ raised = None
  /\ extracted = <<>>
  /\ text_files = <<>>
  /\ processed_dir = <<>>
  /\ results = <<>>
  /\ total_original = 0
  /\ total_processed = 0
  /\ ask = NoAsk

IdleSessions ==
  /\ now = 0
  /\ files = <<>>
  /\ event = [proc |-> 0, kind |-> "none", question |-> None,
             documents |-> <<>>]
  /\ driver = [p \in Procs |-> "none"]
  /\ pc = [p \in Procs |-> "idle"]
  /\ retrieve_only = [p \in Procs |-> FALSE]
  /\ session_start = [p \in Procs |-> 0]
  /\ session_id = [p \in Procs |-> 0]
  /\ traces = [p \in Procs |-> [session_metadata |-> <<>>, queries |-> <<>>]]
  /\ query_count = [p \in Procs |-> 0]
  /\ questions = [p \in Procs |-> <<>>]
  /\ next_q = [p \in Procs |-> 1]
  /\ printed = [p \in Procs |-> {}]

InitNorm ==
  /\ original \in RawTexts
  /\ processed = <<>>
  /\ NoDocuments
  /\ IdleSessions

\* processed_text = preprocess_text(original_text), and once more on the result
Preprocess ==
  /\ Len(processed) < MaxRuns
  /\ processed' = Append(processed,
                         preprocess_text(IF Len(processed) = 0 THEN original
                                         ELSE processed[Len(processed)]))
  /\ UNCHANGED <<original, stats, raised, extracted, text_files,
                 processed_dir, results, total_original, total_processed, ask>>
  /\ UNCHANGED sessionVars

NextNorm == Preprocess

SpecNorm == InitNorm /\ [][NextNorm]_vars

\* ------------------------------------------------------------------------
\* process_document: one text is read, cleaned and measured
\* ------------------------------------------------------------------------

\* a line of StatLineWidth characters: k letters, then blanks
StatLine(k) == [i \in 1..StatLineWidth |-> IF i <= k THEN "x" ELSE SP]

\* texts of whitespace only, two-line texts, and texts of StatLines lines:
\* j lines of letters, a line that ends in blanks, and blank lines
StatTexts ==
  UNION { [1..n -> Whitespace] : n \in 0..MaxBlank }
  \cup { JoinLines(<<a, b>>) : a \in LineSet, b \in LineSet }
  \cup { JoinLines([i \in 1..StatLines |->
                      IF i <= j THEN StatLine(StatLineWidth)
                      ELSE IF i = j + 1 THEN StatLine(k)
                      ELSE StatLine(0)]) :
           j \in 0..(StatLines - 1), k \in 0..StatLineWidth }

\* process_document after read_text: the cleaned text and its stats, or the
\* exception that calculate_stats raised
process_document(original_text) ==
  LET processed_text == preprocess_text(original_text)
      r == calculate_stats(original_text, processed_text)
  IN IF IsException(r) THEN r
     ELSE [processed_text |-> processed_text, stats |-> r]

InitStats ==
  /\ original \in StatTexts
  /\ processed = <<>>
  /\ NoDocuments
  /\ IdleSessions

ProcessDocument ==
  /\ processed = <<>>
  /\ raised = None
  /\ LET r == process_document(original)
     IN IF IsException(r)
        THEN /\ raised' = r.exception
             /\ UNCHANGED <<processed, stats>>
        ELSE /\ processed' = <<r.processed_text>>
             /\ stats' = <<r.stats>>
             /\ UNCHANGED raised
  /\ UNCHANGED <<original, extracted, text_files, processed_dir, results,
                 total_original, total_processed, ask>>
  /\ UNCHANGED sessionVars

NextStats == ProcessDocument

SpecStats == InitStats /\ [][NextStats]_vars

\* ------------------------------------------------------------------------
\* The cleaning steps one by one: a text is drawn and one of the steps, or
\* preprocess_text as a whole, is applied to it; event.kind names the step
\* ------------------------------------------------------------------------
SpecialChars ==
  {NUL, BOM, ZWSP, NBSP, ENDASH, EMDASH, LDQUO, RDQUO, LSQUO, RSQUO, "a"}

\* lines that are short, or short once stripped
ShortLines ==
  { <<>>, <<"a", "b">>, <<"a", SP, "b">>, <<SP, "a", "b", SP>>, <<"a", "b", "c">> }

\* lines with section numbers, trailing numbers and dot leaders
StepLines ==
  { <<>>,
    <<"e", "f", "g">>,
    <<"1", ".", "2", "A", "b">>,
    <<"1", "2", "A">>,
    <<"1", ".", "A">>,
    <<"1", SP, SP, "A", "b">>,
    <<"a", "1", "A">>,
    <<"1", SP, "2">>,
    <<"7", ".", ".", ".", "3">>,
    <<"a", "b", "c", SP, "1">> }

\* texts of special characters; texts of up to 2 * EdgeLines + 1 content
\* lines, one of them replaced by a short line; texts of header and
\* table-of-contents lines
StepTexts ==
  UNION { [1..n -> SpecialChars] : n \in 0..MaxChars }
  \cup { JoinLines([k \in 1..n |-> IF k = i THEN short ELSE <<"e", "f", "g">>]) :
           n \in 1..(2 * EdgeLines + 1), i \in 1..(2 * EdgeLines + 1),
           short \in ShortLines }
  \cup UNION { { JoinLines(ls) : ls \in [1..n -> StepLines] } : n \in 1..MaxStepLines }

InitSteps ==
  /\ original \in StepTexts
  /\ processed = <<>>
  /\ NoDocuments
  /\ IdleSessions

\* what a step leaves alone
stepFrame ==
  <<original, stats, raised, extracted, text_files, processed_dir, results,
    total_original, total_processed, ask, now, files, driver, pc, retrieve_only, session_start, session_id, traces,
    query_count, questions, next_q, printed>>

StepEvent(kind) ==
  [proc |-> 0, kind |-> kind, question |-> None, documents |-> <<>>]

CleanSpecialCharacters ==
  /\ processed = <<>>
  /\ processed' = <<clean_special_characters(original)>>
  /\ event' = StepEvent("clean_special_characters")
  /\ UNCHANGED stepFrame

RemovePageArtifacts ==
  /\ processed = <<>>
  /\ processed' = <<remove_page_artifacts(original)>>
  /\ event' = StepEvent("remove_page_artifacts")
  /\ UNCHANGED stepFrame

RemoveTableOfContentsArtifacts ==
  /\ processed = <<>>
  /\ processed' = <<remove_table_of_contents_artifacts(original)>>
  /\ event' = StepEvent("remove_table_of_contents_artifacts")
  /\ UNCHANGED stepFrame

NormalizeSectionHeaders ==
  /\ processed = <<>>
  /\ processed' = <<normalize_section_headers(original)>>
  /\ event' = StepEvent("normalize_section_headers")
  /\ UNCHANGED stepFrame

PreprocessText ==
  /\ processed = <<>>
  /\ processed' = <<preprocess_text(original)>>
  /\ event' = StepEvent("preprocess_text")
  /\ UNCHANGED stepFrame

NextSteps ==
  \/ CleanSpecialCharacters
  \/ RemovePageArtifacts
  \/ RemoveTableOfContentsArtifacts
  \/ NormalizeSectionHeaders
  \/ PreprocessText

SpecSteps == InitSteps /\ [][NextSteps]_vars

\* ------------------------------------------------------------------------
\* Trace drivers: 06_capture_traces.py (interactive) and
\* 07_generate_example_traces.py (batch)
\* ------------------------------------------------------------------------

\* EXAMPLE_QUESTIONS of 07_generate_example_traces.py
EXAMPLE_QUESTIONS ==
  << [question_id |-> 1, question |-> "cjis passwords",
      category |-> "authentication", difficulty |-> "easy"],
     [question_id |-> 2, question |-> "nist audit logs",
      category |-> "audit_logging", difficulty |-> "medium"],
     [question_id |-> 3, question |-> "hipaa encryption",
      category |-> "encryption", difficulty |-> "easy"] >>

\* question lists handed to generate_traces: the first n example questions
QuestionLists == { Take(EXAMPLE_QUESTIONS, n) : n \in 0..MaxQueries }

\* what the user types at the prompt as a question
Questions == {"qa", "qb"}

\* documents a retriever can return, and the lists it returns them in
DocA == [score |-> 9, content |-> "chunk a",
         meta |-> [file_path |-> "a.txt", source_id |-> "sa", split_id |-> 0,
                   split_idx_start |-> 0, page_number |-> 1]]
DocB == [score |-> 7, content |-> "chunk b",
         meta |-> [file_path |-> "b.txt", source_id |-> "sb", split_id |-> 1,
                   split_idx_start |-> 40, page_number |-> 2]]
DocLists == { <<>>, <<DocB, DocA>> }

\* replies of the llm component
ReplyLists == { <<>>, <<"answer">> }

\* --llm model argument
Models == {"gemini"}

\* datetime.strftime("%Y%m%d_%H%M%S"): the clock reading cut to whole seconds
strftime(t) == t \div TicksPerSecond

\* a file name that leaves the session id out
InteractivePath_NoId(sid) == <<"session_", 0, ".json">>

\* output_dir / f"session_{session_id}.json"
InteractivePath(sid) == <<"session_", sid, ".json">>

\* output_dir / f"example_session_{session_id}.json"
BatchPath(sid) == <<"example_session_", sid, ".json">>

\* the contexts list built from the retrieved documents
RECURSIVE BuildContexts(_, _)
BuildContexts(documents, rank) ==
  IF Len(documents) = 0 THEN <<>>
  ELSE << [rank |-> rank,
           score |-> documents[1].score,
           content |-> documents[1].content,
           metadata |-> [file_path |-> documents[1].meta.file_path,
                         source_id |-> documents[1].meta.source_id,
                         split_id |-> documents[1].meta.split_id,
                         split_idx_start |-> documents[1].meta.split_idx_start]] >>
       \o BuildContexts(Tail(documents), rank + 1)

\* the contexts of the documents taken in reverse order
ExtractContexts_Reversed(documents) ==
  BuildContexts([i \in 1..Len(documents) |-> documents[Len(documents) + 1 - i]], 1)

\* contexts = []; for rank, doc in enumerate(documents, 1): contexts.append(...)
ExtractContexts(documents) == BuildContexts(documents, 1)

\* an answer taken from the replies whatever the mode
ExtractAnswer_IgnoresMode(ro, replies) ==
  IF Len(replies) > 0 THEN replies[1] ELSE None

\* query_pipeline: the answer it extracts from the pipeline result
ExtractAnswer(ro, replies) ==
  IF ro THEN None
  ELSE IF Len(replies) > 0 THEN replies[1] ELSE None

\* the session_metadata dictionary both drivers start from
StartMetadata(start, ro, model) ==
  [session_id |-> strftime(start),
   started_at |-> start,
   mode |-> IF ro THEN "retrieve_only" ELSE "full_rag",
   collection |-> "compliance_rag_v1",
   embedding_model |-> "BAAI/bge-large-en-v1.5",
   llm_model |-> IF ro THEN None ELSE model,
   top_k |-> 5]

\* round(seconds, 2) of a duration read in ticks: the nearest multiple of
\* RoundTicks; half-way between two multiples the binary value of the float
\* decides, so either neighbour can come out
Round2(d) ==
  {m * RoundTicks : m \in {k \in (0 - MaxTime)..MaxTime :
                             2 * k * RoundTicks - RoundTicks <= 2 * d
                             /\ 2 * d <= 2 * k * RoundTicks + RoundTicks}}

\* the end fields with the query count left at zero
Finalized_NoTotal(meta, queries, end, duration) ==
  [ended_at |-> end,
   total_queries |-> 0,
   session_duration_seconds |-> duration] @@ meta

\* session_metadata with ended_at, total_queries, session_duration_seconds set
Finalized(meta, queries, end, duration) ==
  [ended_at |-> end,
   total_queries |-> Len(queries),
   session_duration_seconds |-> duration] @@ meta

\* with open(output_file, 'w') as f: json.dump(traces, f, indent=2)
WriteFile(fs, path, content) ==
  [f \in DOMAIN fs \cup {path} |-> IF f = path THEN content ELSE fs[f]]

\* the clock advances
Tick ==
  /\ now < MaxTime
  /\ now' = now + 1
  /\ event' = [proc |-> 0, kind |-> "tick", question |-> None,
             documents |-> <<>>]
  /\ UNCHANGED <<files, driver, pc, retrieve_only, session_start, session_id,
                 traces, query_count, questions, next_q, printed>>
  /\ UNCHANGED normVars

\* the wall clock datetime.now() reads is set back (a clock correction, the
\* end of daylight saving time in the naive local time the drivers use)
ClockSetBack ==
  /\ \E t \in 0..(now - 1) : now' = t
  /\ event' = [proc |-> 0, kind |-> "set_back", question |-> None,
               documents |-> <<>>]
  /\ UNCHANGED <<files, driver, pc, retrieve_only, session_start, session_id,
                 traces, query_count, questions, next_q, printed>>
  /\ UNCHANGED normVars

\* interactive_session_with_traces up to the loop (lines 241-258)
StartInteractive(p, ro, model) ==
  /\ pc[p] = "idle"
  /\ driver' = [driver EXCEPT ![p] = "interactive"]
  /\ pc' = [pc EXCEPT ![p] = "loop"]
  /\ retrieve_only' = [retrieve_only EXCEPT ![p] = ro]
  /\ session_start' = [session_start EXCEPT ![p] = now]
  /\ session_id' = [session_id EXCEPT ![p] = strftime(now)]
  /\ traces' = [traces EXCEPT ![p] =
                  [session_metadata |-> StartMetadata(now, ro, model),
                   queries |-> <<>>]]
  /\ query_count' = [query_count EXCEPT ![p] = 0]
  /\ event' = [proc |-> p, kind |-> "start", question |-> None,
             documents |-> <<>>]
  /\ UNCHANGED <<now, files, questions, next_q, printed>>
  /\ UNCHANGED normVars

\* the code after the loop with the write wrapped so that a failure is
\* swallowed and the success message printed all the same
SaveInteractive_SwallowsError(p, io_ok) ==
  IF Len(traces[p].queries) > 0
  THEN LET final == [traces[p] EXCEPT !.session_metadata =
                       Finalized(@, traces[p].queries, now, now - session_start[p])]
       IN /\ traces' = [traces EXCEPT ![p] = final]
          /\ printed' = [printed EXCEPT ![p] = @ \cup {"saved"}]
          /\ pc' = [pc EXCEPT ![p] = "done"]
          /\ IF io_ok
             THEN files' = WriteFile(files, InteractivePath(session_id[p]), final)
             ELSE UNCHANGED files
  ELSE /\ printed' = [printed EXCEPT ![p] = @ \cup {"no_queries"}]
       /\ pc' = [pc EXCEPT ![p] = "done"]
       /\ UNCHANGED <<files, traces>>

\* the code after the loop (lines 326-342): finalize and write the trace, or
\* print the notice; io_ok tells whether mkdir and open/dump succeed
SaveInteractive(p, io_ok) ==
  IF Len(traces[p].queries) > 0
  THEN LET final == [traces[p] EXCEPT !.session_metadata =
                       Finalized(@, traces[p].queries, now, now - session_start[p])]
       IN /\ traces' = [traces EXCEPT ![p] = final]
          /\ IF io_ok
             THEN /\ files' = WriteFile(files, InteractivePath(session_id[p]), final)
                  /\ printed' = [printed EXCEPT ![p] = @ \cup {"saved"}]
                  /\ pc' = [pc EXCEPT ![p] = "done"]
             ELSE /\ pc' = [pc EXCEPT ![p] = "raised"]
                  /\ UNCHANGED <<files, printed>>
  ELSE /\ printed' = [printed EXCEPT ![p] = @ \cup {"no_queries"}]
       /\ pc' = [pc EXCEPT ![p] = "done"]
       /\ UNCHANGED <<files, traces>>

\* the user types quit, exit or q: break, then the code after the loop
Quit(p, io_ok) ==
  /\ driver[p] = "interactive"
  /\ pc[p] = "loop"
  /\ SaveInteractive(p, io_ok)
  /\ event' = [proc |-> p, kind |-> "quit", question |-> None,
             documents |-> <<>>]
  /\ UNCHANGED <<now, driver, retrieve_only, session_start, session_id,
                 query_count, questions, next_q>>
  /\ UNCHANGED normVars

\* the user enters an empty line: continue
EmptyInput(p) ==
  /\ driver[p] = "interactive"
  /\ pc[p] = "loop"
  /\ event' = [proc |-> p, kind |-> "empty", question |-> None,
             documents |-> <<>>]
  /\ UNCHANGED <<now, files, driver, pc, retrieve_only, session_start,
                 session_id, traces, query_count, questions, next_q, printed>>
  /\ UNCHANGED normVars

\* every record gets the id 1, whatever the counter says
Ask_FirstIdAlways(p, question, documents, replies) ==
  /\ driver[p] = "interactive"
  /\ pc[p] = "loop"
  /\ query_count[p] < MaxQueries
  /\ query_count' = [query_count EXCEPT ![p] = @ + 1]
  /\ LET contexts == ExtractContexts(documents)
         query_trace ==
           [query_id |-> 1,
            timestamp |-> now,
            question |-> question,
            retrieved_contexts |-> contexts,
            generated_answer |-> ExtractAnswer(retrieve_only[p], replies),
            num_contexts_retrieved |-> Len(contexts),
            query_time_seconds |-> 0]
     IN traces' = [traces EXCEPT ![p].queries = Append(@, query_trace)]
  /\ event' = [proc |-> p, kind |-> "ok", question |-> question,
               documents |-> documents]
  /\ UNCHANGED <<now, files, driver, pc, retrieve_only, session_start,
                 session_id, questions, next_q, printed>>
  /\ UNCHANGED normVars

\* the record is stored as the whole list instead of being appended
Ask_Overwrites(p, question, documents, replies) ==
  /\ driver[p] = "interactive"
  /\ pc[p] = "loop"
  /\ query_count[p] < MaxQueries
  /\ query_count' = [query_count EXCEPT ![p] = @ + 1]
  /\ LET contexts == ExtractContexts(documents)
         query_trace ==
           [query_id |-> query_count[p] + 1,
            timestamp |-> now,
            question |-> question,
            retrieved_contexts |-> contexts,
            generated_answer |-> ExtractAnswer(retrieve_only[p], replies),
            num_contexts_retrieved |-> Len(contexts),
            query_time_seconds |-> 0]
     IN traces' = [traces EXCEPT ![p].queries = <<query_trace>>]
  /\ event' = [proc |-> p, kind |-> "ok", question |-> question,
               documents |-> documents]
  /\ UNCHANGED <<now, files, driver, pc, retrieve_only, session_start,
                 session_id, questions, next_q, printed>>
  /\ UNCHANGED normVars

\* one loop iteration in which the query succeeds (lines 270-315)
Ask(p, question, documents, replies) ==
  /\ driver[p] = "interactive"
  /\ pc[p] = "loop"
  /\ query_count[p] < MaxQueries
  /\ query_count' = [query_count EXCEPT ![p] = @ + 1]
  /\ LET contexts == ExtractContexts(documents)
         query_trace ==
           [query_id |-> query_count[p] + 1,
            timestamp |-> now,
            question |-> question,
            retrieved_contexts |-> contexts,
            generated_answer |-> ExtractAnswer(retrieve_only[p], replies),
            num_contexts_retrieved |-> Len(contexts),
            query_time_seconds |-> 0]
     IN traces' = [traces EXCEPT ![p].queries = Append(@, query_trace)]
  /\ event' = [proc |-> p, kind |-> "ok", question |-> question,
               documents |-> documents]
  /\ UNCHANGED <<now, files, driver, pc, retrieve_only, session_start,
                 session_id, questions, next_q, printed>>
  /\ UNCHANGED normVars

\* the loop without its except clause: the exception leaves the function
AskFails_Propagates(p, question) ==
  /\ driver[p] = "interactive"
  /\ pc[p] = "loop"
  /\ query_count[p] < MaxQueries
  /\ query_count' = [query_count EXCEPT ![p] = @ + 1]
  /\ pc' = [pc EXCEPT ![p] = "raised"]
  /\ event' = [proc |-> p, kind |-> "error", question |-> question,
               documents |-> <<>>]
  /\ UNCHANGED <<now, files, driver, retrieve_only, session_start,
                 session_id, traces, questions, next_q, printed>>
  /\ UNCHANGED normVars

\* one loop iteration in which the pipeline (or building the record) raises
\* an Exception: except Exception ... continue (lines 320-324)
AskFails(p, question) ==
  /\ driver[p] = "interactive"
  /\ pc[p] = "loop"
  /\ query_count[p] < MaxQueries
  /\ query_count' = [query_count EXCEPT ![p] = @ + 1]
  /\ event' = [proc |-> p, kind |-> "error", question |-> question,
               documents |-> <<>>]
  /\ UNCHANGED <<now, files, driver, pc, retrieve_only, session_start,
                 session_id, traces, questions, next_q, printed>>
  /\ UNCHANGED normVars

\* the loop without its except KeyboardInterrupt clause: the interrupt
\* leaves the function and the code after the loop does not run
Interrupt_Propagates(p, in_query, io_ok) ==
  /\ driver[p] = "interactive"
  /\ pc[p] = "loop"
  /\ in_query => query_count[p] < MaxQueries
  /\ query_count' = [query_count EXCEPT ![p] = IF in_query THEN @ + 1 ELSE @]
  /\ pc' = [pc EXCEPT ![p] = "raised"]
  /\ event' = [proc |-> p, kind |-> "interrupt", question |-> None,
             documents |-> <<>>]
  /\ UNCHANGED <<now, files, driver, retrieve_only, session_start, session_id,
                 traces, questions, next_q, printed>>
  /\ UNCHANGED normVars

\* KeyboardInterrupt at the prompt (in_query = FALSE) or while the query runs
\* (in_query = TRUE): break, then the code after the loop (lines 317-319)
Interrupt(p, in_query, io_ok) ==
  /\ driver[p] = "interactive"
  /\ pc[p] = "loop"
  /\ in_query => query_count[p] < MaxQueries
  /\ query_count' = [query_count EXCEPT ![p] = IF in_query THEN @ + 1 ELSE @]
  /\ SaveInteractive(p, io_ok)
  /\ event' = [proc |-> p, kind |-> "interrupt", question |-> None,
             documents |-> <<>>]
  /\ UNCHANGED <<now, driver, retrieve_only, session_start, session_id,
                 questions, next_q>>
  /\ UNCHANGED normVars

\* generate_traces up to the loop (lines 181-204)
StartBatch(p, qs, ro, model) ==
  /\ pc[p] = "idle"
  /\ driver' = [driver EXCEPT ![p] = "batch"]
  /\ pc' = [pc EXCEPT ![p] = "loop"]
  /\ retrieve_only' = [retrieve_only EXCEPT ![p] = ro]
  /\ session_start' = [session_start EXCEPT ![p] = now]
  /\ session_id' = [session_id EXCEPT ![p] = strftime(now)]
  /\ traces' = [traces EXCEPT ![p] =
                  [session_metadata |->
                     [dataset |-> "example_questions"] @@ StartMetadata(now, ro, model),
                   queries |-> <<>>]]
  /\ questions' = [questions EXCEPT ![p] = qs]
  /\ next_q' = [next_q EXCEPT ![p] = 1]
  /\ event' = [proc |-> p, kind |-> "start", question |-> None,
             documents |-> <<>>]
  /\ UNCHANGED <<now, files, query_count, printed>>
  /\ UNCHANGED normVars

\* one iteration of the for loop in which pipeline.run returns (lines 206-287)
BatchAsk(p, documents, replies) ==
  /\ driver[p] = "batch"
  /\ pc[p] = "loop"
  /\ next_q[p] <= Len(questions[p])
  /\ LET q == questions[p][next_q[p]]
         contexts == ExtractContexts(documents)
         query_trace ==
           [query_id |-> q.question_id,
            timestamp |-> now,
            question |-> q.question,
            category |-> q.category,
            difficulty |-> q.difficulty,
            retrieved_contexts |-> contexts,
            generated_answer |-> ExtractAnswer(retrieve_only[p], replies),
            num_contexts_retrieved |-> Len(contexts),
            query_time_seconds |-> 0]
     IN traces' = [traces EXCEPT ![p].queries = Append(@, query_trace)]
  /\ next_q' = [next_q EXCEPT ![p] = @ + 1]
  /\ event' = [proc |-> p, kind |-> "ok",
               question |-> questions[p][next_q[p]].question,
               documents |-> documents]
  /\ UNCHANGED <<now, files, driver, pc, retrieve_only, session_start,
                 session_id, query_count, questions, printed>>
  /\ UNCHANGED normVars

\* one iteration of the for loop in which pipeline.run raises: nothing in
\* generate_traces catches it, the exception leaves the function
BatchAskFails(p) ==
  /\ driver[p] = "batch"
  /\ pc[p] = "loop"
  /\ next_q[p] <= Len(questions[p])
  /\ pc' = [pc EXCEPT ![p] = "raised"]
  /\ event' = [proc |-> p, kind |-> "error",
               question |-> questions[p][next_q[p]].question,
               documents |-> <<>>]
  /\ UNCHANGED <<now, files, driver, retrieve_only, session_start, session_id,
                 traces, query_count, questions, next_q, printed>>
  /\ UNCHANGED normVars

\* the code after the for loop that writes the trace and stays in the loop
BatchFinalize_KeepsLooping(p, io_ok) ==
  /\ driver[p] = "batch"
  /\ pc[p] = "loop"
  /\ next_q[p] > Len(questions[p])
  /\ \E duration \in Round2(now - session_start[p]) :
     LET final == [traces[p] EXCEPT !.session_metadata =
                     Finalized(@, traces[p].queries, now, duration)]
     IN /\ traces' = [traces EXCEPT ![p] = final]
        /\ files' = WriteFile(files, BatchPath(session_id[p]), final)
        /\ printed' = [printed EXCEPT ![p] = @ \cup {"saved"}]
  /\ event' = [proc |-> p, kind |-> "finalize", question |-> None,
             documents |-> <<>>]
  /\ UNCHANGED <<now, driver, pc, retrieve_only, session_start, session_id,
                 query_count, questions, next_q>>
  /\ UNCHANGED normVars

\* the code after the for loop (lines 289-308): finalize with the duration
\* rounded to two decimals, write, report
BatchFinalize(p, io_ok) ==
  /\ driver[p] = "batch"
  /\ pc[p] = "loop"
  /\ next_q[p] > Len(questions[p])
  /\ \E duration \in Round2(now - session_start[p]) :
     LET final == [traces[p] EXCEPT !.session_metadata =
                     Finalized(@, traces[p].queries, now, duration)]
     IN /\ traces' = [traces EXCEPT ![p] = final]
        /\ IF io_ok
           THEN /\ files' = WriteFile(files, BatchPath(session_id[p]), final)
                /\ printed' = [printed EXCEPT ![p] = @ \cup {"saved"}]
                /\ pc' = [pc EXCEPT ![p] = "done"]
           ELSE /\ pc' = [pc EXCEPT ![p] = "raised"]
                /\ UNCHANGED <<files, printed>>
  /\ event' = [proc |-> p, kind |-> "finalize", question |-> None,
             documents |-> <<>>]
  /\ UNCHANGED <<now, driver, retrieve_only, session_start, session_id,
                 query_count, questions, next_q>>
  /\ UNCHANGED normVars

InitSessions ==
  /\ original = <<>>
  /\ processed = <<>>
  /\ NoDocuments
  /\ IdleSessions

\* one session, started by either driver
Next ==
  \/ Tick
  \/ \E ro \in BOOLEAN, model \in Models : StartInteractive(1, ro, model)
  \/ \E io_ok \in BOOLEAN : Quit(1, io_ok)
  \/ EmptyInput(1)
  \/ \E question \in Questions, documents \in DocLists, replies \in ReplyLists :
       Ask(1, question, documents, replies)
  \/ \E question \in Questions : AskFails(1, question)
  \/ \E in_query \in BOOLEAN, io_ok \in BOOLEAN : Interrupt(1, in_query, io_ok)
  \/ \E qs \in QuestionLists, ro \in BOOLEAN, model \in Models :
       StartBatch(1, qs, ro, model)
  \/ \E documents \in DocLists, replies \in ReplyLists : BatchAsk(1, documents, replies)
  \/ BatchAskFails(1)
  \/ \E io_ok \in BOOLEAN : BatchFinalize(1, io_ok)

Spec == InitSessions /\ [][Next]_vars

\* two sessions running at once over one output directory and one clock,
\* each asking at most MaxSharedQueries questions
NextTwoSessions ==
  \/ Tick
  \/ \E p \in Procs :
       \/ StartInteractive(p, FALSE, "gemini")
       \/ \E io_ok \in BOOLEAN : Quit(p, io_ok)
       \/ EmptyInput(p)
       \/ query_count[p] < MaxSharedQueries /\ Ask(p, "qa", <<DocA>>, <<"answer">>)
       \/ query_count[p] < MaxSharedQueries /\ AskFails(p, "qa")
       \/ \E in_query \in BOOLEAN :
            /\ in_query => query_count[p] < MaxSharedQueries
            /\ Interrupt(p, in_query, TRUE)
       \/ \E qs \in QuestionLists :
            Len(qs) <= MaxSharedQueries /\ StartBatch(p, qs, FALSE, "gemini")
       \/ BatchAsk(p, <<DocA>>, <<"answer">>)
       \/ BatchAskFails(p)
       \/ \E io_ok \in BOOLEAN : BatchFinalize(p, io_ok)

SpecTwoSessions == InitSessions /\ [][NextTwoSessions]_vars

\* one session under a wall clock that can also be set back
NextClock ==
  \/ Tick
  \/ ClockSetBack
  \/ StartInteractive(1, FALSE, "gemini")
  \/ \E io_ok \in BOOLEAN : Quit(1, io_ok)
  \/ EmptyInput(1)
  \/ Ask(1, "qa", <<DocA>>, <<"answer">>)
  \/ AskFails(1, "qa")
  \/ \E in_query \in BOOLEAN : Interrupt(1, in_query, TRUE)
  \/ \E qs \in QuestionLists : StartBatch(1, qs, FALSE, "gemini")
  \/ BatchAsk(1, <<DocA>>, <<"answer">>)
  \/ BatchAskFails(1)
  \/ \E io_ok \in BOOLEAN : BatchFinalize(1, io_ok)

SpecClock == InitSessions /\ [][NextClock]_vars

\* ------------------------------------------------------------------------
\* preprocess_all_documents: every text file of data/extracted is cleaned
\* and saved with its metadata to data/processed.  A document is named by
\* its stem, a number; a directory maps <<stem, "txt">> and
\* <<stem, "metadata">> to the contents of the two files of a document.
\* ------------------------------------------------------------------------
Stems == 1..MaxDocs

\* the metadata file extract_pdf_text.py writes next to an extracted text
\* (save_extracted_text), here for a PDF that PDF_METADATA does not list
ExtractedMetadata(stem, text) ==
  [title |-> stem, type |-> "unknown", source |-> "unknown", url |-> "",
   extraction_date |-> 0, original_filename |-> stem,
   text_length |-> Len(text), output_file |-> stem]

\* texts found in data/extracted
DocTexts == { <<>>, <<"a", "b", SP, SP, "c">> }

\* data/extracted: some of the stems have a text file, and some of those
\* have the metadata file as well
ExtractedDirs ==
  { [f \in ({<<st, "txt">> : st \in withText} \cup {<<st, "metadata">> : st \in withMeta})
       |-> IF f[2] = "txt" THEN texts[f[1]]
           ELSE ExtractedMetadata(f[1], texts[f[1]])] :
      withText \in SUBSET Stems, withMeta \in SUBSET Stems,
      texts \in [Stems -> DocTexts] }

RECURSIVE Sorted(_)
\* sorted(...) of a set of stems
Sorted(S) == IF S = {} THEN <<>> ELSE <<Min(S)>> \o Sorted(S \ {Min(S)})

\* the state when the loop over text_files starts (lines 221-233)
InitPreprocessAll ==
  /\ original = <<>>
  /\ processed = <<>>
  /\ stats = <<>>
  /\ raised = None
  /\ extracted \in { dir \in ExtractedDirs :
                       \A f \in DOMAIN dir : <<f[1], "txt">> \in DOMAIN dir }
  /\ text_files = Sorted({f[1] : f \in {g \in DOMAIN extracted : g[2] = "txt"}})
  /\ processed_dir = <<>>
  /\ results = <<>>
  /\ total_original = 0
  /\ total_processed = 0
  /\ ask = NoAsk
  /\ IdleSessions

\* lines 239-243: the extracted metadata, or a title made from the stem
LoadMetadata(dir, stem) ==
  IF <<stem, "metadata">> \in DOMAIN dir THEN dir[<<stem, "metadata">>]
  ELSE [title |-> stem]

\* save_processed_document, lines 204-209
UpdatedMetadata(stem, metadata, doc_stats) ==
  [preprocessing_date |-> now, preprocessing_stats |-> doc_stats,
   processed_file |-> stem] @@ metadata

\* the loop without its try: the first failure ends the batch, the files
\* behind it are not taken
PreprocessFile_StopsAtFailure(outcome) ==
  /\ Len(text_files) > 0
  /\ LET stem == Head(text_files)
         metadata == LoadMetadata(extracted, stem)
         r == process_document(extracted[<<stem, "txt">>])
         failed == [filename |-> stem, status |-> "failed", error |-> outcome]
     IN /\ text_files' = IF outcome = "ok" THEN Tail(text_files) ELSE <<>>
        /\ IF outcome = "read_fails"
           THEN /\ results' = Append(results, failed)
                /\ UNCHANGED <<processed_dir, total_original, total_processed>>
           ELSE IF IsException(r)
           THEN /\ results' = Append(results, [failed EXCEPT !.error = r.exception])
                /\ UNCHANGED <<processed_dir, total_original, total_processed>>
           ELSE IF outcome = "write_text_fails"
           THEN /\ results' = Append(results, failed)
                /\ UNCHANGED <<processed_dir, total_original, total_processed>>
           ELSE IF outcome = "write_metadata_fails"
           THEN /\ results' = Append(results, failed)
                /\ processed_dir' = WriteFile(processed_dir, <<stem, "txt">>,
                                              r.processed_text)
                /\ UNCHANGED <<total_original, total_processed>>
           ELSE /\ results' = Append(results, [filename |-> stem,
                                               status |-> "success",
                                               stats |-> r.stats])
                /\ processed_dir' =
                     WriteFile(WriteFile(processed_dir, <<stem, "txt">>,
                                         r.processed_text),
                               <<stem, "metadata">>,
                               UpdatedMetadata(stem, metadata, r.stats))
                /\ total_original' = total_original + r.stats.original_length
                /\ total_processed' = total_processed + r.stats.processed_length
  /\ UNCHANGED <<original, processed, stats, raised, extracted, ask>>
  /\ UNCHANGED sessionVars

\* one turn of the loop of preprocess_all_documents; outcome tells which
\* file operation, if any, raises
PreprocessFile(outcome) ==
  /\ Len(text_files) > 0
  /\ LET stem == Head(text_files)
         metadata == LoadMetadata(extracted, stem)
         r == process_document(extracted[<<stem, "txt">>])
         failed == [filename |-> stem, status |-> "failed", error |-> outcome]
     IN /\ text_files' = Tail(text_files)
        /\ IF outcome = "read_fails"
           THEN /\ results' = Append(results, failed)
                /\ UNCHANGED <<processed_dir, total_original, total_processed>>
           ELSE IF IsException(r)
           THEN /\ results' = Append(results, [failed EXCEPT !.error = r.exception])
                /\ UNCHANGED <<processed_dir, total_original, total_processed>>
           ELSE IF outcome = "write_text_fails"
           THEN /\ results' = Append(results, failed)
                /\ UNCHANGED <<processed_dir, total_original, total_processed>>
           ELSE IF outcome = "write_metadata_fails"
           THEN /\ results' = Append(results, failed)
                /\ processed_dir' = WriteFile(processed_dir, <<stem, "txt">>,
                                              r.processed_text)
                /\ UNCHANGED <<total_original, total_processed>>
           ELSE /\ results' = Append(results, [filename |-> stem,
                                               status |-> "success",
                                               stats |-> r.stats])
                /\ processed_dir' =
                     WriteFile(WriteFile(processed_dir, <<stem, "txt">>,
                                         r.processed_text),
                               <<stem, "metadata">>,
                               UpdatedMetadata(stem, metadata, r.stats))
                /\ total_original' = total_original + r.stats.original_length
                /\ total_processed' = total_processed + r.stats.processed_length
  /\ UNCHANGED <<original, processed, stats, raised, extracted, ask>>
  /\ UNCHANGED sessionVars

FileOutcomes == {"ok", "read_fails", "write_text_fails", "write_metadata_fails"}

NextPreprocessAll == \E outcome \in FileOutcomes : PreprocessFile(outcome)

SpecPreprocessAll == InitPreprocessAll /\ [][NextPreprocessAll]_vars

\* ------------------------------------------------------------------------
\* Properties
\* ------------------------------------------------------------------------

\* t holds n or more consecutive characters c
HasRun(t, c, n) ==
  \E i \in 1..(Len(t) - n + 1) : \A k \in 0..(n - 1) : t[i + k] = c

\* some line of t ends with a whitespace character
HasTrailingWhitespace(t) ==
  LET ls == SplitLines(t)
  IN \E k \in 1..Len(ls) : Len(ls[k]) > 0 /\ ls[k][Len(ls[k])] \in Whitespace

\* the path a session writes its trace to
PathOf(p) ==
  IF driver[p] = "interactive" THEN InteractivePath(session_id[p])
  ELSE BatchPath(session_id[p])

\* the session has written its trace file
Saved(p) == "saved" \in printed[p]

\* C1: normalization is idempotent: cleaning already-cleaned text changes
\* nothing, preprocess_text(preprocess_text(x)) = preprocess_text(x)
C1_Idempotent ==
  Len(processed) >= 2 => processed[2] = processed[1]

\* C2: the text returned by preprocess_text never holds three or more
\* consecutive newline characters
C2_NoTripleNewline ==
  Len(processed) >= 1 => ~HasRun(processed[1], NL, 3)

\* C3: the text returned by preprocess_text holds no run of three or more
\* spaces, no line that ends with a whitespace character, and no leading or
\* trailing whitespace
C3_WhitespaceGuarantee ==
  \A k \in 1..Len(processed) :
    LET out == processed[k]
    IN /\ ~HasRun(out, SP, 3)
       /\ ~HasTrailingWhitespace(out)
       /\ Len(out) > 0 => out[1] \notin Whitespace /\ out[Len(out)] \notin Whitespace

\* a raw text with a run of three spaces, a line ending in whitespace and
\* leading whitespace has been cleaned to a non-empty text
C3_Witness ==
  /\ Len(processed) >= 1
  /\ Len(processed[1]) > 0
  /\ HasRun(original, SP, 3)
  /\ HasTrailingWhitespace(original)
  /\ Len(original) > 0
  /\ original[1] \in Whitespace

\* the text given to the latest run of the cleaner
CleanerInput ==
  IF Len(processed) = 1 THEN original ELSE processed[Len(processed) - 1]

\* once the cleaner has run: the tokens of the input of its latest run to
\* which it does one of fates all occur in the output of that run
TokensSurvive(fates) ==
  Len(processed) >= 1 =>
    LET t0 == clean_special_characters(CleanerInput)
        fate == TokenFates(CleanerInput)
    IN \A s \in DOMAIN fate :
         fate[s] \in fates
           => Occurs(TokenAt(t0, s), processed[Len(processed)])

\* C4: normalization loses no content outside the designed artifact
\* classes: every alphanumeric token of the input that is not on a
\* page-number line, not part of a dot-leader-plus-number sequence and not a
\* trailing bare number at a line end still occurs in the output
C4_NoContentLoss ==
  TokensSurvive({"content", "short_edge_line", "header_split"})

\* C4 as amended: every alphanumeric token of the input, read after the
\* character step, still occurs in the output unless it stands on a line
\* the page step drops (a page-number line, a "Page N [of M]" line, a line
\* of fewer than 3 non-whitespace characters among the first 5 or last 5
\* lines), overlaps a dot-leader-plus-number match or is a trailing bare
\* number in the text that reaches the table-of-contents step, or is a
\* section number run together with the upper-case letter the header step
\* parts from it
C4_NoContentLossBeyondArtifacts == TokensSurvive({"content"})

\* a raw text has been cleaned in which one token stood on a short line at
\* the edge of the text, one was a section number run together with a
\* letter, one was behind a dot leader, and one was plain content that is
\* found in the output
C4_Witness ==
  /\ Len(processed) >= 1
  /\ LET t0 == clean_special_characters(original)
         fate == TokenFates(original)
     IN /\ \E s \in DOMAIN fate : fate[s] = "short_edge_line"
        /\ \E s \in DOMAIN fate : fate[s] = "header_split"
        /\ \E s \in DOMAIN fate : fate[s] = "dot_leader"
        /\ \E s \in DOMAIN fate :
             fate[s] = "content" /\ Occurs(TokenAt(t0, s), processed[1])

\* C5: in every persisted session trace the query ids are 1, 2, 3, ... in
\* list order, without gaps
C5_QueryIdsGapFree ==
  \A f \in DOMAIN files :
    \A i \in 1..Len(files[f].queries) : files[f].queries[i].query_id = i

\* C6: a step in which retrieval or generation raises an error appends a
\* query record for that question, with an error field, no retrieved
\* contexts and no generated answer
C6_ErrorIsRecorded ==
  [][ event'.kind = "error" =>
        LET p == event'.proc
            qs == traces'[p].queries
        IN /\ Len(qs) = Len(traces[p].queries) + 1
           /\ "error" \in DOMAIN qs[Len(qs)]
           /\ qs[Len(qs)].question = event'.question
           /\ qs[Len(qs)].retrieved_contexts = <<>>
           /\ qs[Len(qs)].generated_answer = None ]_vars

\* C7: in the interactive session an exception raised while a query runs
\* leaves the session in its loop with the recorded queries unchanged, and a
\* session that ends with recorded queries and a successful write has them
\* in its trace file
C7_InteractiveErrorIsNotFatal ==
  [][ \A p \in Procs :
        /\ (driver[p] = "interactive" /\ event'.kind = "error" /\ event'.proc = p)
             => pc'[p] = "loop" /\ traces'[p] = traces[p]
        /\ (driver[p] = "interactive" /\ pc[p] = "loop" /\ pc'[p] = "done"
              /\ Len(traces[p].queries) > 0)
             => /\ PathOf(p) \in DOMAIN files'
                /\ files'[PathOf(p)].queries = traces[p].queries ]_vars

\* a query was recorded, a later query failed, the user then quit and the
\* trace file holds the recorded query
C7_Witness ==
  /\ driver[1] = "interactive"
  /\ pc[1] = "done"
  /\ event.kind = "quit"
  /\ Len(traces[1].queries) = 1
  /\ query_count[1] = 2
  /\ traces[1].queries[1].query_id = 1
  /\ PathOf(1) \in DOMAIN files
  /\ files[PathOf(1)].queries = traces[1].queries

\* C8: in generate_traces an error raised by the pipeline for one question
\* does not abort the session: the driver stays in its loop (and so goes on
\* to the remaining questions and the final write)
C8_BatchErrorIsNotFatal ==
  \A p \in Procs :
    (driver[p] = "batch" /\ event.kind = "error" /\ event.proc = p)
      => pc[p] = "loop"

\* C9: no trace file with an empty queries list is ever written, and a
\* session that ends with no recorded query prints a notice instead
C9_NoEmptyTraceFile ==
  /\ \A f \in DOMAIN files : Len(files[f].queries) > 0
  /\ \A p \in Procs :
       (pc[p] = "done" /\ Len(traces[p].queries) = 0)
         => "no_queries" \in printed[p] /\ ~Saved(p)

\* C10: two different sessions of the same driver never write to the same
\* file path
C10_DistinctPaths ==
  \A p \in Procs, q \in Procs :
    (p # q /\ driver[p] = driver[q] /\ Saved(p) /\ Saved(q))
      => PathOf(p) # PathOf(q)

\* C10 as amended: two sessions of the same driver whose start times fall in
\* different clock seconds write to different paths, and each trace file
\* still holds the trace its session wrote
C10_DistinctPathsAcrossSeconds ==
  \A p \in Procs, q \in Procs :
    (/\ p # q
     /\ driver[p] = driver[q]
     /\ Saved(p)
     /\ Saved(q)
     /\ session_start[p] \div TicksPerSecond # session_start[q] \div TicksPerSecond)
      => /\ PathOf(p) # PathOf(q)
         /\ files[PathOf(p)] = traces[p]
         /\ files[PathOf(q)] = traces[q]

\* two interactive sessions started in different seconds have both written
\* their trace
C10_Witness ==
  /\ driver[1] = "interactive"
  /\ driver[2] = "interactive"
  /\ Saved(1)
  /\ Saved(2)
  /\ session_start[1] \div TicksPerSecond # session_start[2] \div TicksPerSecond
  /\ Cardinality(DOMAIN files) = 2

\* the session's metadata carries the fields set at session end
IsFinalized(trace) == "ended_at" \in DOMAIN trace.session_metadata

\* C11: a session goes start, appends, finalize, one write: a query record
\* is appended only to a trace that is neither finalized nor written, the
\* end fields are set in a step that appends nothing and leaves the loop,
\* the file is written only by a session that had not written yet and then
\* holds the finalized trace, and a session that has written changes
\* neither its trace nor the directory again
C11_SessionLifecycle ==
  [][ \A p \in Procs :
        /\ traces'[p].queries # traces[p].queries
             => /\ pc[p] = "loop"
                /\ ~IsFinalized(traces[p])
                /\ ~Saved(p)
                /\ Len(traces'[p].queries) = Len(traces[p].queries) + 1
                /\ SubSeq(traces'[p].queries, 1, Len(traces[p].queries))
                     = traces[p].queries
        /\ (IsFinalized(traces'[p]) /\ ~IsFinalized(traces[p]))
             => /\ traces'[p].queries = traces[p].queries
                /\ traces'[p].session_metadata.total_queries
                     = Len(traces[p].queries)
                /\ pc'[p] # "loop"
        /\ (files' # files /\ event'.proc = p)
             => /\ ~Saved(p)
                /\ "saved" \in printed'[p]
                /\ IsFinalized(traces'[p])
                /\ files' = WriteFile(files, PathOf(p), traces'[p])
        /\ Saved(p)
             => /\ traces'[p] = traces[p]
                /\ pc'[p] = "done"
                /\ event'.proc = p => files' = files ]_vars

\* a session has appended two query records, then finalized and written
\* its trace
C11_Witness ==
  /\ pc[1] = "done"
  /\ Saved(1)
  /\ Len(traces[1].queries) = 2
  /\ IsFinalized(traces[1])
  /\ files[PathOf(1)] = traces[1]

C13_RetrievalOnlyHasNoAnswer ==
  \A p \in Procs :
    (driver[p] # "none" /\ retrieve_only[p])
      => /\ traces[p].session_metadata.llm_model = None
         /\ \A i \in 1..Len(traces[p].queries) :
              traces[p].queries[i].generated_answer = None
         /\ Saved(p)
              => /\ files[PathOf(p)].session_metadata.llm_model = None
                 /\ \A i \in 1..Len(files[PathOf(p)].queries) :
                      files[PathOf(p)].queries[i].generated_answer = None

\* a retrieval-only session has recorded two queries and written its trace
C13_Witness ==
  /\ retrieve_only[1]
  /\ Saved(1)
  /\ Len(files[PathOf(1)].queries) = 2

\* C14: the mode written in session_metadata is "retrieval_only" when the
\* session runs without generation and "full_rag" otherwise
C14_ModeIsOneOfTwo ==
  \A p \in Procs :
    driver[p] # "none"
      => /\ traces[p].session_metadata.mode \in {"retrieval_only", "full_rag"}
         /\ traces[p].session_metadata.mode
              = IF retrieve_only[p] THEN "retrieval_only" ELSE "full_rag"

\* C15: in every persisted session trace total_queries is the number of
\* entries of the queries list, ended_at is not earlier than started_at, and
\* session_duration_seconds is the difference of the two timestamps
C15_TotalsAndTimes ==
  \A f \in DOMAIN files :
    LET m == files[f].session_metadata
    IN /\ m.total_queries = Len(files[f].queries)
       /\ m.ended_at >= m.started_at
       /\ m.session_duration_seconds = m.ended_at - m.started_at

\* C15 as amended: the step that writes a session trace writes total_queries
\* equal to the number of recorded queries, started_at and ended_at equal
\* to the wall-clock readings at the start and at the end of that session
\* (so ended_at is earlier than started_at only when the clock was set
\* back in between), and session_duration_seconds equal to their
\* difference, exact in the interactive driver and rounded to two decimals
\* in the batch driver
C15_TotalsAndSessionClock ==
  [][ files' # files =>
        LET p == event'.proc
            m == files'[PathOf(p)].session_metadata
        IN /\ m.total_queries = Len(files'[PathOf(p)].queries)
           /\ files'[PathOf(p)].queries = traces[p].queries
           /\ m.started_at = session_start[p]
           /\ m.ended_at = now
           /\ IF driver[p] = "interactive"
              THEN m.session_duration_seconds = m.ended_at - m.started_at
              ELSE m.session_duration_seconds \in Round2(m.ended_at - m.started_at) ]_vars

\* a batch session has written a trace whose duration differs from the
\* difference of its two timestamps
C15_Witness ==
  /\ driver[1] = "batch"
  /\ Saved(1)
  /\ LET m == files[PathOf(1)].session_metadata
     IN /\ m.total_queries = 1
        /\ m.ended_at > m.started_at
        /\ m.session_duration_seconds # m.ended_at - m.started_at

\* C16: at session end, when there is a trace to write, either the file is
\* written and reported as saved, or the I/O error leaves the session
\* function (no file, no success message); after the error the session
\* takes no further step, so the write is not tried again
C16_IOErrorPropagates ==
  [][ \A p \in Procs :
        /\ (/\ event'.proc = p
            /\ event'.kind \in {"quit", "interrupt", "finalize"}
            /\ driver[p] = "batch" \/ Len(traces[p].queries) > 0)
             => \/ /\ pc'[p] = "done"
                   /\ "saved" \in printed'[p]
                   /\ PathOf(p) \in DOMAIN files'
                   /\ files'[PathOf(p)] = traces'[p]
                \/ /\ pc'[p] = "raised"
                   /\ "saved" \notin printed'[p]
                   /\ files' = files
        /\ pc[p] = "raised"
             => /\ event'.proc # p
                /\ pc'[p] = "raised"
                /\ printed'[p] = printed[p] ]_vars

\* an interactive session with a recorded query has ended in the I/O
\* error of its write: nothing is saved
C16_Witness ==
  /\ driver[1] = "interactive"
  /\ pc[1] = "raised"
  /\ event.kind = "quit"
  /\ Len(traces[1].queries) > 0
  /\ DOMAIN files = {}
  /\ ~Saved(1)

\* C17 (as stated): whenever calculate_stats has returned, reduction_percent
\* is round((original_length - processed_length) / original_length * 100, 2)
\* for a non-empty original and 0 for an empty one, and no division by zero
\* was raised
C17_ReductionPercentFormula ==
  /\ raised # "ZeroDivisionError"
  /\ Len(stats) > 0
       => stats[1].reduction_percent =
            StatedReductionPercent(stats[1].original_length,
                                   stats[1].processed_length)

\* C18 (as stated): the empty string is cleaned to the empty string and all
\* six fields of its stats record are 0
C18_EmptyInputAllZero ==
  (original = <<>> /\ Len(stats) > 0)
    => /\ processed[1] = <<>>
       /\ \A f \in {"original_length", "processed_length", "reduction_chars",
                     "reduction_percent", "original_lines", "processed_lines"} :
            stats[1][f] = 0

\* C19: cleaning and measuring raises nothing, whatever the text; a text of
\* whitespace only, the empty one included, is cleaned to the empty text
C19_NeverRaisesAndBlankToEmpty ==
  /\ raised = None
  /\ Len(stats) > 0
       => /\ Len(processed) = 1
          /\ (\A i \in 1..Len(original) : original[i] \in Whitespace)
               => processed[1] = <<>>

\* the empty text, a text of blanks and line ends, and a text with content
\* have each been cleaned and measured
C19_Witness ==
  /\ Len(stats) > 0
  /\ raised = None
  /\ Len(original) = MaxBlank
  /\ \A i \in 1..Len(original) : original[i] \in Whitespace
  /\ NL \in {original[i] : i \in 1..Len(original)}
  /\ NBSP \in {original[i] : i \in 1..Len(original)}
  /\ processed[1] = <<>>
  /\ stats[1].reduction_percent = 10000

\* C20 (as stated): every text file reported as processed has a metadata
\* file in data/processed with the fields title, type, source,
\* extraction_date, preprocessing_date and preprocessing_stats
C20_ProcessedMetadataFields ==
  \A i \in 1..Len(results) :
    results[i].status = "success"
      => /\ <<results[i].filename, "metadata">> \in DOMAIN processed_dir
         /\ {"title", "type", "source", "extraction_date",
             "preprocessing_date", "preprocessing_stats"}
              \subseteq DOMAIN processed_dir[<<results[i].filename, "metadata">>]

\* ------------------------------------------------------------------------
\* Answer generation with manual retry: 05_interactive_rag.py, ask_question
\* ------------------------------------------------------------------------

\* bound: LLM invocations followed for one question
MaxAttempts == 3

AVAILABLE_MODELS == <<"gemini-2.5-flash", "gemini-2.5-flash-lite", "gemma-3-27b">>

AsciiUpper == <<"A", "B", "C", "D", "E", "F", "G", "H", "I", "J", "K", "L", "M",
                "N", "O", "P", "Q", "R", "S", "T", "U", "V", "W", "X", "Y", "Z">>
AsciiLower == <<"a", "b", "c", "d", "e", "f", "g", "h", "i", "j", "k", "l", "m",
                "n", "o", "p", "q", "r", "s", "t", "u", "v", "w", "x", "y", "z">>

\* str.lower()
lower(s) ==
  [i \in 1..Len(s) |->
     IF \E k \in 1..Len(AsciiUpper) : AsciiUpper[k] = s[i]
     THEN AsciiLower[CHOOSE k \in 1..Len(AsciiUpper) : AsciiUpper[k] = s[i]]
     ELSE s[i]]

\* pattern in s
Contains(s, pattern) ==
  \E i \in 1..(Len(s) - Len(pattern) + 1) :
    SubSeq(s, i, i + Len(pattern) - 1) = pattern

retryable_patterns ==
  { <<"5", "0", "3">>, <<"5", "0", "2">>, <<"5", "0", "0">>,
    <<"o", "v", "e", "r", "l", "o", "a", "d", "e", "d">>,
    <<"u", "n", "a", "v", "a", "i", "l", "a", "b", "l", "e">>,
    <<"i", "n", "t", "e", "r", "n", "a", "l">> }

is_retryable_error(error_msg) ==
  \E pattern \in retryable_patterns : Contains(lower(error_msg), pattern)

\* "Empty response"
EmptyResponse ==
  <<"E", "m", "p", "t", "y", SP, "r", "e", "s", "p", "o", "n", "s", "e">>

\* str(e) of exceptions llm.run can raise
ErrorMessages ==
  { <<"5", "0", "3", SP, "U", "N", "A", "V", "A", "I", "L", "A", "B", "L", "E">>,
    <<"O", "v", "e", "r", "l", "o", "a", "d", "e", "d">>,
    <<"4", "0", "1", SP, "k", "e", "y">>,
    <<"t", "i", "m", "e", "o", "u", "t">>,
    <<>> }

\* what llm.run does: a reply with text, no reply or an empty text, or an
\* exception with one of the messages
LlmOutcomes ==
  { [kind |-> "reply", text |-> "answer", message |-> <<>>],
    [kind |-> "reply", text |-> "", message |-> <<>>] }
    \cup {[kind |-> "raise", text |-> "", message |-> m] : m \in ErrorMessages}

\* (success, answer_text, error_msg); None is written <<>> for error_msg and
\* "" for answer_text, the code tests both for truth only
generate_with_llm(outcome) ==
  IF outcome.kind = "raise"
  THEN [success |-> FALSE, answer_text |-> "", error_msg |-> outcome.message]
  ELSE IF outcome.text # ""
  THEN [success |-> TRUE, answer_text |-> outcome.text, error_msg |-> <<>>]
  ELSE [success |-> FALSE, answer_text |-> "", error_msg |-> EmptyResponse]

\* what the user types at "Choice [r/s/n]: "
ChoiceInputs ==
  { <<"r">>, <<"R">>, <<SP, "s", SP>>, <<"s">>, <<"n">>, <<>>, <<"r", "s">> }

\* select_model: Enter (picked = 0) keeps the current model, a number in
\* range picks from the list; any other input asks again
select_model(current_model, picked) ==
  IF picked = 0 THEN current_model ELSE AVAILABLE_MODELS[picked]

askFrame ==
  <<original, processed, stats, raised, extracted, text_files, processed_dir,
    results, total_original, total_processed>>

\* ask_question up to the retry loop: embedding, retrieval and prompt
\* building change nothing the loop reads but the question
AskQuestion(question, current_model) ==
  /\ ask.stage \in {"idle", "returned"}
  /\ ask' = [stage |-> "generate", question |-> question,
             active_model |-> current_model, switched_model |-> None,
             attempts |-> 0, failed |-> FALSE, error_msg |-> <<>>,
             choice |-> <<>>, returned |-> <<>>]
  /\ UNCHANGED askFrame
  /\ UNCHANGED sessionVars

\* the head of the while loop: one call of generate_with_llm and the
\* branches on its result, without any question to the user
Generate_AutoRetry(outcome) ==
  /\ ask.stage = "generate"
  /\ ask.attempts < MaxAttempts
  /\ LET r == generate_with_llm(outcome)
         model == IF ask.switched_model # None THEN ask.switched_model
                  ELSE ask.active_model
         called == [ask EXCEPT !.attempts = @ + 1, !.active_model = model,
                               !.choice = <<>>, !.error_msg = r.error_msg,
                               !.failed = ~(r.success /\ r.answer_text # "")]
     IN ask' = IF r.success /\ r.answer_text # ""
               THEN [called EXCEPT !.stage = "returned",
                                   !.returned = <<TRUE, ask.switched_model>>]
               ELSE IF r.error_msg # <<>> /\ is_retryable_error(r.error_msg)
               THEN called
               ELSE [called EXCEPT !.stage = "returned",
                                   !.returned = <<FALSE, ask.switched_model>>]
  /\ UNCHANGED askFrame
  /\ UNCHANGED sessionVars

\* the head of the while loop: one call of generate_with_llm and the
\* branches on its result
Generate(outcome) ==
  /\ ask.stage = "generate"
  /\ ask.attempts < MaxAttempts
  /\ LET r == generate_with_llm(outcome)
         model == IF ask.switched_model # None THEN ask.switched_model
                  ELSE ask.active_model
         called == [ask EXCEPT !.attempts = @ + 1, !.active_model = model,
                               !.choice = <<>>, !.error_msg = r.error_msg,
                               !.failed = ~(r.success /\ r.answer_text # "")]
     IN ask' = IF r.success /\ r.answer_text # ""
               THEN [called EXCEPT !.stage = "returned",
                                   !.returned = <<TRUE, ask.switched_model>>]
               ELSE IF r.error_msg # <<>> /\ is_retryable_error(r.error_msg)
               THEN [called EXCEPT !.stage = "prompt"]
               ELSE [called EXCEPT !.stage = "returned",
                                   !.returned = <<FALSE, ask.switched_model>>]
  /\ UNCHANGED askFrame
  /\ UNCHANGED sessionVars

\* the answer to "Choice [r/s/n]: " and what the loop does with it
Choose(typed, picked) ==
  /\ ask.stage = "prompt"
  /\ LET choice == lower(strip(typed))
         new_model == select_model(ask.active_model, picked)
         chosen == [ask EXCEPT !.choice = choice]
     IN ask' = IF choice = <<"r">>
               THEN [chosen EXCEPT !.stage = "generate"]
               ELSE IF choice = <<"s">>
               THEN IF new_model # ask.active_model
                    THEN [chosen EXCEPT !.stage = "generate",
                                        !.switched_model = new_model]
                    ELSE [chosen EXCEPT !.stage = "generate"]
               ELSE [chosen EXCEPT !.stage = "returned",
                                   !.returned = <<FALSE, ask.switched_model>>]
  /\ UNCHANGED askFrame
  /\ UNCHANGED sessionVars

InitAsk ==
  /\ original = <<>>
  /\ processed = <<>>
  /\ NoDocuments
  /\ IdleSessions

NextAsk ==
  \/ \E question \in Questions :
       \E current_model \in {AVAILABLE_MODELS[k] : k \in 1..Len(AVAILABLE_MODELS)} :
         AskQuestion(question, current_model)
  \/ \E outcome \in LlmOutcomes : Generate(outcome)
  \/ \E typed \in ChoiceInputs :
       \E picked \in 0..Len(AVAILABLE_MODELS) : Choose(typed, picked)

SpecAsk == InitAsk /\ [][NextAsk]_vars

\* the character the claimed substitution puts in the place of c
Substitute(c) ==
  CASE c = NBSP -> SP
    [] c \in {ENDASH, EMDASH} -> "-"
    [] c \in {LDQUO, RDQUO} -> DQUOTE
    [] c \in {LSQUO, RSQUO} -> SQUOTE
    [] OTHER -> c

IsKeptChar(c) == c \notin {NUL, BOM, ZWSP}

\* C21 (as stated): clean_special_characters deletes null bytes, byte-order
\* marks and zero-width spaces, replaces non-breaking spaces, dashes and
\* curly quotes character by character, and keeps every other character
C21_CharacterSubstitution ==
  event.kind = "clean_special_characters"
    => LET kept == SelectSeq(original, IsKeptChar)
       IN processed[1] = [i \in 1..Len(kept) |-> Substitute(kept[i])]

\* a line that consists only of a page marker: "Page N", "Page N of M" or
\* a bare integer, with or without dashes around it
IsPageArtifactLine(line) == IsPageNumberLine(line) \/ IsPageOfLine(line)

\* C22 (as stated): no line of the text preprocess_text returns is a page
\* marker, whichever step brought the line about
C22_NoPageArtifactLineLeft ==
  event.kind = "preprocess_text"
    => LET out == SplitLines(processed[1])
       IN \A k \in 1..Len(out) : ~IsPageArtifactLine(out[k])

\* the lines the claimed rule keeps: a line goes if it is a page marker, or
\* if it has fewer than 3 non-whitespace characters and is one of the first
\* 5 or of the last 5 lines
ClaimedKeptLines(ls) ==
  LET NonBlank(line) == Cardinality({i \in 1..Len(line) : line[i] \notin Whitespace})
      Goes(k) == \/ IsPageArtifactLine(ls[k])
                 \/ NonBlank(ls[k]) < 3 /\ (k <= 5 \/ k > Len(ls) - 5)
      keep == {k \in 1..Len(ls) : ~Goes(k)}
      Nth(S, j) == CHOOSE k \in S : Cardinality({m \in S : m < k}) = j - 1
  IN [j \in 1..Cardinality(keep) |-> ls[Nth(keep, j)]]

\* C23 (as stated): remove_page_artifacts drops exactly the page markers
\* and the lines with fewer than 3 non-whitespace characters among the
\* first 5 or the last 5 lines
C23_ShortLinesInBothWindows ==
  event.kind = "remove_page_artifacts"
    => processed[1] = JoinLines(ClaimedKeptLines(SplitLines(original)))

\* C24 (as stated): remove_table_of_contents_artifacts removes no newline
\* character, so the text has as many lines after the step as before it
C24_LineCountKept ==
  event.kind = "remove_table_of_contents_artifacts"
    => count(processed[1], NL) = count(original, NL)

\* digits in groups joined by single dots: 1, 12, 1.2, 1.2.3
IsDottedNumber(s) ==
  /\ Len(s) > 0
  /\ \A i \in 1..Len(s) : s[i] \in Digits \cup {"."}
  /\ s[1] \in Digits
  /\ s[Len(s)] \in Digits
  /\ \A i \in 1..(Len(s) - 1) : ~(s[i] = "." /\ s[i + 1] = ".")

\* C25: normalize_section_headers keeps the number of lines; a line that
\* begins with a dotted number directly followed by an uppercase letter
\* comes back with one space between the two and nothing else changed; a
\* line that does not begin with a digit comes back unchanged
C25_HeaderSpacing ==
  event.kind = "normalize_section_headers"
    => LET in == SplitLines(original)
           out == SplitLines(processed[1])
       IN /\ Len(out) = Len(in)
          /\ \A k \in 1..Len(in) :
               /\ \A n \in 1..(Len(in[k]) - 1) :
                    (IsDottedNumber(Take(in[k], n)) /\ in[k][n + 1] \in UpperLetters)
                      => out[k] = Take(in[k], n) \o <<SP>> \o Drop(in[k], n)
               /\ (Len(in[k]) = 0 \/ in[k][1] \notin Digits) => out[k] = in[k]

\* a header glued to its number and a line that starts with a letter have
\* gone through the step: the first got its space, the second is as it was
C25_Witness ==
  /\ event.kind = "normalize_section_headers"
  /\ original = JoinLines(<< <<"1", ".", "2", "A", "b">>, <<"a", "1", "A">> >>)
  /\ processed[1] = JoinLines(<< <<"1", ".", "2", SP, "A", "b">>, <<"a", "1", "A">> >>)

\* the fields of session_metadata written when the session starts
ConfigFields ==
  {"session_id", "started_at", "mode", "collection", "embedding_model",
   "llm_model", "top_k"}

\* C26: a step that records a query adds one entry at the end of the
\* session's queries list; the entries recorded before and the
\* configuration fields of session_metadata are as they were
C26_AppendOnly ==
  [][ \A p \in Procs :
        (event'.proc = p /\ event'.kind = "ok")
          => /\ Len(traces'[p].queries) = Len(traces[p].queries) + 1
             /\ SubSeq(traces'[p].queries, 1, Len(traces[p].queries))
                  = traces[p].queries
             /\ traces'[p].queries[Len(traces'[p].queries)].question
                  = event'.question
             /\ \A f \in ConfigFields :
                  traces'[p].session_metadata[f] = traces[p].session_metadata[f] ]_vars

\* a second query has been recorded behind the first, which was another
\* question
C26_Witness ==
  /\ event.kind = "ok"
  /\ driver[1] = "interactive"
  /\ Len(traces[1].queries) = 2
  /\ traces[1].queries[1].question # traces[1].queries[2].question

C28_InterruptKeepsRecordedQueries ==
  [][ \A p \in Procs :
        /\ (event'.proc = p /\ event'.kind = "interrupt")
             => /\ pc[p] = "loop"
                /\ pc'[p] \in {"done", "raised"}
                /\ traces'[p].queries = traces[p].queries
                /\ Len(traces[p].queries) > 0
                     => /\ IsFinalized(traces'[p])
                        /\ traces'[p].session_metadata.total_queries
                             = Len(traces[p].queries)
                        /\ pc'[p] = "done"
                             => /\ PathOf(p) \in DOMAIN files'
                                /\ files'[PathOf(p)] = traces'[p]
        /\ (pc[p] = "done" /\ event.kind = "interrupt" /\ event.proc = p)
             => event'.proc # p ]_vars

\* the second query of an interactive session was interrupted while it
\* ran: the file holds the first query and nothing else
C28_Witness ==
  /\ event.kind = "interrupt"
  /\ event.proc = 1
  /\ query_count[1] = 2
  /\ pc[1] = "done"
  /\ PathOf(1) \in DOMAIN files
  /\ Len(files[PathOf(1)].queries) = 1
  /\ files[PathOf(1)].queries[1].query_id = 1
  /\ IsFinalized(files[PathOf(1)])

\* the text files the batch found in data/extracted, in the order it takes them
FoundFiles == Sorted({f[1] : f \in {g \in DOMAIN extracted : g[2] = "txt"}})

RECURSIVE SumOfSuccesses(_, _)
\* the sum of one stats field over the success entries of a results list
SumOfSuccesses(rs, field) ==
  IF rs = <<>> THEN 0
  ELSE (IF Head(rs).status = "success" THEN Head(rs).stats[field] ELSE 0)
         + SumOfSuccesses(Tail(rs), field)

\* C29: whatever failed so far, the batch has one result entry, success or
\* failed, for each file it has taken, in the order of the files found, and
\* the files not yet taken are still to come; at the end the entries are as
\* many as the files found; the totals are the sums over the successes
C29_BatchSurvivesFailures ==
  /\ Len(results) + Len(text_files) = Len(FoundFiles)
  /\ \A i \in 1..Len(results) :
       /\ results[i].filename = FoundFiles[i]
       /\ results[i].status \in {"success", "failed"}
  /\ \A i \in 1..Len(text_files) : text_files[i] = FoundFiles[Len(results) + i]
  /\ total_original = SumOfSuccesses(results, "original_length")
  /\ total_processed = SumOfSuccesses(results, "processed_length")
  /\ total_original =
       SumOfSuccesses([i \in 1..Len(results) |->
                         [status |-> results[i].status,
                          stats |-> [original_length |->
                                       Len(extracted[<<results[i].filename, "txt">>])]]],
                      "original_length")

\* the first file failed and the second one was processed all the same
C29_Witness ==
  /\ Len(results) = 2
  /\ text_files = <<>>
  /\ results[1].status = "failed"
  /\ results[2].status = "success"
  /\ Len(extracted[<<results[1].filename, "txt">>]) > 0
  /\ total_original = Len(extracted[<<results[2].filename, "txt">>])
  /\ total_original > 0


\* the LLM is called once more for the question in hand
Invoked == ask'.question = ask.question /\ ask'.attempts = ask.attempts + 1

\* the answers that ask for another attempt
RetryAnswers == { <<"r">>, <<"s">> }

\* C30: in ask_question generation is never retried automatically. After a
\* failed attempt the LLM is invoked again for the same question only if the
\* error is classified retryable and the user answered r or s; on a
\* non-retryable error, or on any other answer, ask_question returns failure
\* without another attempt; and it returns success as soon as one attempt
\* yields a non-empty answer
C30_RetryOnlyOnRequest ==
  [][ /\ (Invoked /\ ask.attempts > 0)
           => /\ ask.failed
              /\ is_retryable_error(ask.error_msg)
              /\ ask.choice \in RetryAnswers
      /\ (Invoked /\ ask'.failed /\ ~is_retryable_error(ask'.error_msg))
           => /\ ask'.stage = "returned"
              /\ ask'.returned[1] = FALSE
      /\ (ask.stage = "prompt" /\ ask'.choice \notin RetryAnswers)
           => /\ ask'.stage = "returned"
              /\ ask'.returned[1] = FALSE
              /\ ask'.attempts = ask.attempts
      /\ (Invoked /\ ~ask'.failed)
           => /\ ask'.stage = "returned"
              /\ ask'.returned[1] = TRUE
      /\ (ask.stage = "returned" /\ ask'.question = ask.question
             /\ ask'.stage # "generate")
           => ask' = ask
    ]_vars

\* a question answered at a later attempt, after retryable failures and a
\* switch of the model
C30_Witness ==
  /\ ask.stage = "returned"
  /\ ask.returned[1] = TRUE
  /\ ask.switched_model # None
  /\ ask.attempts > 1

====
